---- MODULE Spec2Model ----
(***************************************************************************)
(* Eviqo MQTT gateway (EviqoMqttGateway) and the Eviqo WebSocket session   *)
(* client (EviqoWebsocketConnection).                                      *)
(*                                                                         *)
(* Granularity.  Node runs one macrotask (a socket event, a timer, a call  *)
(* from the host program) and then every promise continuation that became  *)
(* runnable, before it takes the next macrotask.  One action of this       *)
(* module is one macrotask together with the continuations it makes        *)
(* runnable: an async function is suspended only where it waits for a      *)
(* socket event or a timer (listen(), the 250 ms gap, the MQTT connect and *)
(* end callbacks, the discovery publish callbacks, fetch / socket open).   *)
(***************************************************************************)
EXTENDS Integers, Sequences, FiniteSets, TLC

(***************************** bounds **************************************)
MaxSessions == 2      \* EviqoWebsocketConnection objects ever constructed
MaxLoad == 5          \* stimuli from outside in one run: calls of start() and
MaxStreams == 3       \* streams of a page in the checks of the page functions
                      \* stop(), MQTT commands, widget updates, keepalives
                      \* falling due, losses of the socket or of the broker

(************************ program constants ********************************)
INIT == 48            \* 0x30
LOGIN == 2            \* 0x02
DEVICE_QUERY == 27    \* 0x1b
DEVICE_NUMBER == 73   \* 0x49
DEVICE_PAGE == 4      \* 0x04
KEEPALIVE == 6        \* 0x06
COMMAND == 20         \* 0x14
InitByte4 == 1        \* fourth header byte passed for INIT
LoginByte4 == 3       \* fourth header byte passed for LOGIN
NoByte == -1          \* byte4 === undefined: take the message counter
NoSession == 0        \* eviqoClient === null
NoDeviceId == 0       \* a device document whose deviceId is undefined
NotFound == -1        \* this.devices.indexOf(device) of an absent object

(***************************** data ****************************************)
DeviceIds == {1, 2}

\* String(n): the decimal text of a device id or a stream id
String(n) ==
  CASE n = 1   -> "1"
    [] n = 2   -> "2"
    [] n = 101 -> "101"
    [] n = 102 -> "102"
    [] n = 201 -> "201"
    [] OTHER   -> "undefined"

DeviceKeys == {String(d) : d \in DeviceIds}

chargingPin == "15"

\* message.trim()
Trim(m) ==
  CASE m = " ON"  -> "ON"
    [] m = "OFF " -> "OFF"
    [] OTHER      -> m

\* CONTROLLABLE_WIDGETS: widget name -> control settings
CONTROLLABLE_WIDGETS == [Current |-> [pin |-> "3", topic_id |-> "current_limit"]]

\* WIDGET_MAPPINGS: the widget names that are published as sensors
WIDGET_MAPPINGS == {"Status", "Voltage"}

\* normalizeTopicName / getTopicId on the names a page can hold
getTopicId(name) ==
  CASE name = "Status"  -> "status"
    [] name = "Voltage" -> "voltage"
    [] name = "Current" -> "current"
    [] OTHER            -> "other"

\* a faulty variant that publishes the raw value
MutStatusRaw(value) == value

\* VALUE_TRANSFORMERS.Status: stateMap[value] || value
StatusTransformer(value) ==
  CASE value = "0" -> "unplugged"
    [] value = "1" -> "plugged"
    [] value = "2" -> "charging"
    [] value = "3" -> "stopped"
    [] OTHER       -> value

\* MQTT topics <topicPrefix>/<deviceId>/<entity>/<leaf>
Topic(d, ent, leaf) == [dev |-> d, ent |-> ent, leaf |-> leaf]
StatusTopic(d) == [dev |-> d, ent |-> "", leaf |-> "status"]

\* device page documents: dashboard -> widgets -> modules -> displayDataStreams
Stream(sid, name, pin, value) == [id |-> sid, name |-> name, pin |-> pin, value |-> value]
\* (device 1 reports Status "3" and has the Current widget; device 2
\* reports no Status value and has no controllable widget)
Page(d) ==
  [kind |-> "page", id |-> d,
   streams |-> IF d = 1
                 THEN << Stream(101, "Status", "1", "3"), Stream(102, "Current", "3", "16") >>
                 ELSE << Stream(201, "Status", "1", "") >>]
Pages == {Page(d) : d \in DeviceIds}
\* response payloads that are no page document: an object without the
\* fields of a page (its id reads undefined), and null
NoPage == [kind |-> "junk", id |-> NoDeviceId, streams |-> << >>]
NullPage == [kind |-> "null", id |-> NoDeviceId, streams |-> << >>]

\* device lists an enumeration response can carry (docs[i][1].deviceId)
DeviceLists == { << >>, <<NoDeviceId, 1>>, <<1, 2>> }

\* outbound payloads: the fields of deviceId NUL "vw" NUL pin NUL value, or
\* the device a request names
Payload(dev, pin, val) == [dev |-> dev, pin |-> pin, val |-> val]
NoPayload == Payload("", "", "")
\* the answer the server owes on a socket: none, or the kind of document
\* and the device it is about
NoRequest == [kind |-> "none", dev |-> ""]
Request(op, payload) ==
  IF op = DEVICE_QUERY THEN [kind |-> "docs", dev |-> ""]
  ELSE IF op = DEVICE_PAGE THEN [kind |-> "page", dev |-> payload.dev]
  ELSE [kind |-> "json", dev |-> ""]

\* inbound binary frames, by what parseBinaryMessage makes of them:
\* widget updates (for the Status pin of device 1, an unknown device, an
\* unknown pin, a record without fields), and JSON payloads
StatusValues == {"1", "2", "4"}
WidgetFrames ==
  {[kind |-> "widget", dev |-> k, pin |-> "1", val |-> v] : k \in {"1"}, v \in StatusValues}
  \cup {[kind |-> "widget", dev |-> "9", pin |-> "1", val |-> "2"],
        [kind |-> "widget", dev |-> "1", pin |-> "7", val |-> "2"],
        [kind |-> "widget", dev |-> "",  pin |-> "",  val |-> ""]}
NullResult == [kind |-> "null"]

\* what the server answers to the request it has last received on a
\* socket: the device list to DEVICE_QUERY, the page of the device named
\* to DEVICE_PAGE, some JSON object to anything else
Responses(asked) ==
  IF asked.kind = "none" THEN {}
  ELSE IF asked.kind = "docs" THEN {[kind |-> "docs", devs |-> l] : l \in DeviceLists}
  ELSE IF asked.kind = "page"
    THEN {[kind |-> "page", page |-> p] : p \in {q \in Pages : String(q.id) = asked.dev}}
  ELSE {[kind |-> "json"]}

\* MQTT payloads of command messages
Payloads == {"ON", "OFF", " ON", "16"}

\* a command topic of a device that is not in the account
ForeignTopic == [dev |-> "9", ent |-> "current_limit", leaf |-> "set"]

(******************************* codec *************************************)
\* utils/protocol: byte strings are sequences of 0..255, text is the
\* sequence of its character codes
NUL == 0              \* the field separator of a widget record
USER_UPDATE == 25     \* 0x19, widget update caused by the user
ParseHeaderLength == 4   \* bytes parseBinaryMessage takes as the header
VW == <<118, 119>>    \* "vw"
OpenBrace == 123      \* "{"
OpenBracket == 91     \* "["

\* Buffer.toString('hex')
HexDigits == <<"0", "1", "2", "3", "4", "5", "6", "7",
               "8", "9", "a", "b", "c", "d", "e", "f">>
RECURSIVE Hex(_)
Hex(bytes) ==
  IF bytes = << >> THEN ""
  ELSE HexDigits[(Head(bytes) \div 16) + 1] \o HexDigits[(Head(bytes) % 16) + 1]
       \o Hex(Tail(bytes))

\* payload values: null, an object or array (held as its JSON text), a string
NullValue == [t |-> "null", text |-> << >>]
JsonValue(text) == [t |-> "json", text |-> text]
StringValue(text) == [t |-> "string", text |-> text]

\* the payload bytes of createBinaryMessage: none for null, the UTF-8 JSON
\* text of an object, the UTF-8 bytes of a string
Serialize(payload) == IF payload.t = "null" THEN << >> ELSE payload.text

\* createBinaryMessage(payload, messageType, messageId): the type, the id as
\* two bytes big-endian, the payload
createBinaryMessage(payload, messageType, messageId) ==
  << messageType % 256, (messageId \div 256) % 256, messageId % 256 >> \o Serialize(payload)

\* a faulty variant of createCommandMessage that ends the value with NUL
MutCommandTrailingNul(deviceId, pin, value, messageId) ==
  << COMMAND, (messageId \div 256) % 256, messageId % 256 >>
  \o deviceId \o <<NUL>> \o VW \o <<NUL>> \o pin \o <<NUL>> \o value \o <<NUL>>

\* createCommandMessage(deviceId, pin, value, messageId)
createCommandMessage(deviceId, pin, value, messageId) ==
  << COMMAND, (messageId \div 256) % 256, messageId % 256 >>
  \o deviceId \o <<NUL>> \o VW \o <<NUL>> \o pin \o <<NUL>> \o value

\* String.split(separator) on a byte string
RECURSIVE Split(_, _)
Split(bytes, sep) ==
  IF \A i \in DOMAIN bytes : bytes[i] # sep THEN <<bytes>>
  ELSE LET i == CHOOSE k \in DOMAIN bytes :
                  bytes[k] = sep /\ \A j \in 1..(k - 1) : bytes[j] # sep
       IN <<SubSeq(bytes, 1, i - 1)>> \o Split(SubSeq(bytes, i + 1, Len(bytes)), sep)

\* the results of parseWidgetUpdate: the fields, or an error with the hex
\* text of the record
WidgetUpdate(deviceId, widgetId, widgetValue) ==
  [error |-> FALSE, deviceId |-> deviceId, widgetId |-> widgetId,
   widgetValue |-> widgetValue, rawHex |-> ""]
WidgetError(rawHex) ==
  [error |-> TRUE, deviceId |-> << >>, widgetId |-> << >>, widgetValue |-> << >>,
   rawHex |-> rawHex]

\* a faulty variant of parseWidgetUpdate that takes the widget database id
\* position (the second field) as the widget id
MutParseWidgetSecondField(data) ==
  LET parts == Split(data, NUL)
  IN IF Len(parts) = 4 /\ parts[2] = VW
       THEN WidgetUpdate(parts[1], parts[2], parts[4])
       ELSE WidgetError(Hex(data))

\* parseWidgetUpdate(payloadData): deviceId NUL "vw" NUL pin NUL value
parseWidgetUpdate(data) ==
  LET parts == Split(data, NUL)
  IN IF Len(parts) = 4 /\ parts[2] = VW
       THEN WidgetUpdate(parts[1], parts[3], parts[4])
       ELSE WidgetError(Hex(data))

\* the header parseBinaryMessage returns, or null
NullHeader ==
  [null |-> TRUE, byte1 |-> 0, byte2 |-> 0, byte3 |-> 0, byte4 |-> 0,
   hasPayload |-> FALSE, payloadType |-> "none"]
Header(b1, b2, b3, b4, has, type) ==
  [null |-> FALSE, byte1 |-> b1, byte2 |-> b2, byte3 |-> b3, byte4 |-> b4,
   hasPayload |-> has, payloadType |-> type]

\* a faulty variant of parseBinaryMessage that reads the header bytes of a
\* short frame all the same
MutParseNoLengthCheck(message) ==
  [header |-> Header(IF Len(message) >= 1 THEN message[1] ELSE -1,
                     IF Len(message) >= 2 THEN message[2] ELSE -1,
                     IF Len(message) >= 3 THEN message[3] ELSE -1,
                     IF Len(message) >= 4 THEN message[4] ELSE -1,
                     FALSE, "none"),
   payload |-> NullValue]

\* parseBinaryMessage(message): null for a frame shorter than the header;
\* else the four header bytes and the payload, read as a widget update when
\* byte2 is 0x14 or 0x19, as JSON when it starts with "{" or "[", else as a
\* string
parseBinaryMessage(message) ==
  IF Len(message) < ParseHeaderLength
    THEN [header |-> NullHeader, payload |-> NullValue]
  ELSE LET data == SubSeq(message, ParseHeaderLength + 1, Len(message))
           type == IF data = << >> THEN "none"
                   ELSE IF message[2] \in {COMMAND, USER_UPDATE} THEN "widget_update"
                   ELSE IF data[1] \in {OpenBrace, OpenBracket} THEN "json"
                   ELSE "string"
       IN [header |-> Header(message[1], message[2], message[3], message[4],
                             data # << >>, type),
           payload |-> CASE type = "none" -> NullValue
                         [] type = "widget_update" ->
                              [t |-> "widget", text |-> data,
                               update |-> parseWidgetUpdate(data)]
                         [] type = "json" -> JsonValue(data)
                         [] OTHER -> StringValue(data)]

\* what the codec checks work on: the inputs of one call and its results
NoIo == [kind |-> "none"]

\* an inbound frame given by its bytes, as listen() resolves with it: the
\* payload parseBinaryMessage returns (null, or some value) and its header
RawFrame(bytes) ==
  [kind |-> IF parseBinaryMessage(bytes).payload = NullValue THEN "null" ELSE "json",
   header |-> IF parseBinaryMessage(bytes).header.null THEN "null" ELSE "set",
   raw |-> bytes]
\* frames shorter than the header
ShortFrames == {RawFrame(<<1, 2>>)}

(**************************** variables ************************************)
VARIABLES
  \* EviqoMqttGateway fields
  state, shutdownRequested, reconnectTimer, orphanTimers, mqttClient, eviqoClient,
  devices, devicePages, deviceStatus,
  commandTopicMap, pinToStateTopicMap, chargingCommandTopicMap,
  \* the MQTT client object and the broker
  mqtt, subs, availability,
  \* EviqoWebsocketConnection objects
  sess, nsess,
  \* async activations: start(), connectEviqo(), monitorLoop(), stop(), and
  \* the charging handlers inside their 250 ms wait
  startPc, conn, mon, stopPc, cmds, ncmds, load,
  \* the last step: the event it handled, the MQTT publishes, the
  \* sendCommand calls, the frames put on a socket and the 'widgetUpdate'
  \* events emitted by a client, each in order; and the subscribe calls
  \* on the MQTT client, each with the number of publishes before it
  ev, pubs, calls, frames, emits, subscribes,
  \* the call of a codec function under check: its inputs and results
  io

gwVars == << state, shutdownRequested, reconnectTimer, orphanTimers, mqttClient, eviqoClient,
             devices, devicePages, deviceStatus,
             commandTopicMap, pinToStateTopicMap, chargingCommandTopicMap >>
envVars == << mqtt, subs, availability >>
taskVars == << startPc, conn, mon, stopPc, cmds, ncmds, load >>
stepVars == << ev, pubs, calls, frames, emits, subscribes >>
vars == << gwVars, envVars, sess, nsess, taskVars, stepVars, io >>

Sessions == 1..MaxSessions

EmptyMap == [x \in {} |-> 0]

\* new EviqoWebsocketConnection(...): the fields after the constructor
\* (listeners: the 'message' handlers listen() has registered, in order;
\* kaDue: 15 s have passed since keepaliveTimer; lastId: the message id of
\* the last frame put on the socket; asked: the request the server has
\* last received and not answered)
NewSession ==
  [ws |-> "null", messageCounter |-> 0, user |-> "null", devices |-> << >>,
   widgetIdMap |-> EmptyMap, widgetNameMap |-> EmptyMap,
   widgetPinMap |-> EmptyMap, listeners |-> << >>,
   kaDue |-> FALSE, lastId |-> NoByte, asked |-> NoRequest]

\* an activation of connectEviqo(): where it waits, who called it, the
\* client whose method it is inside, the array its for-of loop walks (the
\* devices array of a session), the loop position, the page in hand, and
\* the discovery publications it made per device
NoConn == [pc |-> "none", origin |-> "none", cur |-> NoSession, devs |-> NoSession,
           idx |-> 0, page |-> NoPage, disc |-> [d \in DeviceIds |-> 0]]
\* an activation of monitorLoop()
NoMon == [pc |-> "none"]


\* An object nothing refers to any more is garbage.  A connection object is
\* referred to by this.eviqoClient, by an activation that waits inside one
\* of its methods, and by the timers of its pending listen() calls; its
\* devices array also by this.devices and by a for-of loop that walks it.
\* The socket of a collected connection stays as it is.
Waiting(c) == c.pc \notin {"none", "done", "failed"}
Referenced(S, t) ==
  \/ S.eviqoClient = t
  \/ S.sess[t].listeners # << >>
  \/ \E s \in DOMAIN S.conn : Waiting(S.conn[s]) /\ S.conn[s].cur = t
ArrayReferenced(S, t) ==
  \/ S.devices = t
  \/ \E s \in DOMAIN S.conn : Waiting(S.conn[s]) /\ S.conn[s].devs = t
Collect(S) ==
  [t \in DOMAIN S.sess |->
     IF Referenced(S, t) THEN S.sess[t]
     ELSE [NewSession EXCEPT !.ws = S.sess[t].ws,
                             !.devices = IF ArrayReferenced(S, t)
                                           THEN S.sess[t].devices ELSE << >>]]

(******************** the state as one record ******************************)
\* The operators below are the program's functions: each takes the state
\* (every variable, as a record) and returns the state after the call.
Cur ==
  [state |-> state, shutdownRequested |-> shutdownRequested,
   reconnectTimer |-> reconnectTimer, orphanTimers |-> orphanTimers,
   mqttClient |-> mqttClient, eviqoClient |-> eviqoClient,
   devices |-> devices, devicePages |-> devicePages,
   deviceStatus |-> deviceStatus,
   commandTopicMap |-> commandTopicMap, pinToStateTopicMap |-> pinToStateTopicMap,
   chargingCommandTopicMap |-> chargingCommandTopicMap,
   mqtt |-> mqtt, subs |-> subs, availability |-> availability,
   sess |-> sess, nsess |-> nsess,
   startPc |-> startPc,
   \* (the locals of a settled connectEviqo() are gone)
   conn |-> [s \in DOMAIN conn |->
               IF Waiting(conn[s]) THEN conn[s] ELSE [NoConn EXCEPT !.pc = conn[s].pc]],
   mon |-> mon,
   stopPc |-> stopPc, cmds |-> cmds, ncmds |-> ncmds, load |-> load,
   ev |-> ev, pubs |-> << >>, calls |-> << >>, frames |-> << >>, emits |-> << >>,
   subscribes |-> << >>,
   io |-> io]

Commit(S) ==
  /\ state' = S.state
  /\ shutdownRequested' = S.shutdownRequested
  /\ reconnectTimer' = S.reconnectTimer
  /\ orphanTimers' = S.orphanTimers
  /\ mqttClient' = S.mqttClient
  /\ eviqoClient' = S.eviqoClient
  /\ devices' = S.devices
  /\ devicePages' = S.devicePages
  /\ deviceStatus' = S.deviceStatus
  /\ commandTopicMap' = S.commandTopicMap
  /\ pinToStateTopicMap' = S.pinToStateTopicMap
  /\ chargingCommandTopicMap' = S.chargingCommandTopicMap
  /\ mqtt' = S.mqtt
  /\ subs' = S.subs
  /\ availability' = S.availability
  /\ sess' = Collect(S)
  /\ nsess' = S.nsess
  /\ startPc' = S.startPc
  /\ conn' = S.conn
  /\ mon' = S.mon
  /\ stopPc' = S.stopPc
  /\ cmds' = S.cmds
  /\ ncmds' = S.ncmds
  /\ load' = S.load
  /\ ev' = S.ev
  /\ pubs' = S.pubs
  /\ calls' = S.calls
  /\ frames' = S.frames
  /\ emits' = S.emits
  /\ subscribes' = S.subscribes
  /\ io' = S.io

\* the event a step handles: its kind, the session or handler it concerns,
\* and the MQTT message or the kind of inbound frame it carries
\* (for a frame given by its bytes also the bytes, and whether the header
\* parseBinaryMessage returned for them is null)
NoFrame == [kind |-> "none"]
Event(kind, id, topic, message, f) ==
  [kind |-> kind, id |-> id, topic |-> topic, message |-> message, frame |-> f.kind,
   widget |-> IF f.kind = "widget" THEN Payload(f.dev, f.pin, f.val) ELSE NoPayload,
   raw |-> IF "raw" \in DOMAIN f THEN f.raw ELSE << >>,
   header |-> IF "raw" \in DOMAIN f THEN f.header ELSE "set"]
NoTopic == [dev |-> "", ent |-> "", leaf |-> ""]

\* this.devices holds a reference: the devices array of a session
\* (getDevices() returns the array itself), or the initial empty array
DevicesOf(S, ref) == IF ref = NoSession THEN << >> ELSE S.sess[ref].devices

\* listen() on client t by an activation: the handler is registered
Listen(S, t, task, id) ==
  [S EXCEPT !.sess[t].listeners = Append(@, [task |-> task, id |-> id])]

(********************** EviqoWebsocketConnection ***************************)
\* a variant of sendMessage whose counter wraps at the two-byte width
MutSendMessageWrap(S, t, payload, op, b4) ==
  IF S.sess[t].ws = "null" THEN S
  ELSE LET c == S.sess[t].messageCounter
           id == IF b4 = NoByte THEN c ELSE b4
           c2 == IF b4 = NoByte THEN (c + 1) % 65536 ELSE c
       IN IF S.sess[t].ws = "open"
            THEN [S EXCEPT !.sess[t].messageCounter = c2,
                           !.sess[t].lastId = id,
                           !.sess[t].asked = Request(op, payload),
                           !.frames = Append(@, [s |-> t, op |-> op, id |-> id,
                                                 payload |-> payload,
                                                 prev |-> S.sess[t].lastId])]
            ELSE [S EXCEPT !.sess[t].messageCounter = c2]

\* sendMessage(payload, byte1, byte2, byte3, byte4): nothing when the socket
\* was never created; otherwise the counter is taken (and advanced) when
\* byte4 is undefined, and the frame reaches the wire when the socket is
\* open (ws.send on a socket that is not open sends nothing; an exception
\* is caught inside sendMessage).
SendMessage(S, t, payload, op, b4) ==
  IF S.sess[t].ws = "null" THEN S
  ELSE LET c == S.sess[t].messageCounter
           id == IF b4 = NoByte THEN c ELSE b4
           c2 == IF b4 = NoByte THEN c + 1 ELSE c
       IN IF S.sess[t].ws = "open"
            THEN [S EXCEPT !.sess[t].messageCounter = c2,
                           !.sess[t].lastId = id,
                           !.sess[t].asked = Request(op, payload),
                           !.frames = Append(@, [s |-> t, op |-> op, id |-> id,
                                                 payload |-> payload,
                                                 prev |-> S.sess[t].lastId])]
            ELSE [S EXCEPT !.sess[t].messageCounter = c2]

\* Map.set(keys[i], streams[i]) for the streams of a page in order, on a
\* map that may hold entries already: the last stream of a key wins
MergeStreams(old, streams, keys) ==
  LET ks == {keys[i] : i \in DOMAIN streams}
      last(k) == CHOOSE i \in DOMAIN streams :
                   keys[i] = k /\ \A j \in DOMAIN streams : keys[j] = k => j <= i
  IN [k \in (DOMAIN old) \cup ks |-> IF k \in ks THEN streams[last(k)] ELSE old[k]]

\* the same with the first stream of a key kept, a faulty variant
MergeStreamsFirst(old, streams, keys) ==
  LET ks == {keys[i] : i \in DOMAIN streams}
      first(k) == CHOOSE i \in DOMAIN streams :
                    keys[i] = k /\ \A j \in DOMAIN streams : keys[j] = k => i <= j
  IN [k \in (DOMAIN old) \cup ks |-> IF k \in ks THEN streams[first(k)] ELSE old[k]]

\* this.widgetXMap.get(deviceIdx), created empty when missing
MapOf(all, idx) == IF idx \in DOMAIN all THEN all[idx] ELSE EmptyMap
\* this.widgetXMap.set(deviceIdx, map)
WithMap(all, idx, map) == [i \in (DOMAIN all) \cup {idx} |-> IF i = idx THEN map ELSE all[i]]

\* the keys of the streams of a page: String(stream.id), stream.name,
\* String(stream.pin)
StreamIds(streams) == [i \in DOMAIN streams |-> String(streams[i].id)]
StreamNames(streams) == [i \in DOMAIN streams |-> streams[i].name]
StreamPins(streams) == [i \in DOMAIN streams |-> streams[i].pin]

\* a faulty variant of extractWidgetMappings in which the first stream of
\* an id, a name or a pin wins
MutExtractFirstWins(S, t, idx, page) ==
  [S EXCEPT !.sess[t].widgetIdMap =
              WithMap(@, idx, MergeStreamsFirst(MapOf(@, idx), page.streams, StreamIds(page.streams))),
            !.sess[t].widgetNameMap =
              WithMap(@, idx, MergeStreamsFirst(MapOf(@, idx), page.streams, StreamNames(page.streams))),
            !.sess[t].widgetPinMap =
              WithMap(@, idx, MergeStreamsFirst(MapOf(@, idx), page.streams, StreamPins(page.streams)))]

\* extractWidgetMappings(deviceIdx, devicePage): the maps by id, by name and
\* by pin of the device index
ExtractWidgetMappings(S, t, idx, page) ==
  [S EXCEPT !.sess[t].widgetIdMap =
              WithMap(@, idx, MergeStreams(MapOf(@, idx), page.streams, StreamIds(page.streams))),
            !.sess[t].widgetNameMap =
              WithMap(@, idx, MergeStreams(MapOf(@, idx), page.streams, StreamNames(page.streams))),
            !.sess[t].widgetPinMap =
              WithMap(@, idx, MergeStreams(MapOf(@, idx), page.streams, StreamPins(page.streams)))]

(*************************** EviqoMqttGateway ******************************)
\* mqttClient && mqttClient.connected (the flag stays set while end() runs)
MqttUp(S) == S.mqttClient # "null" /\ S.mqtt \in {"connected", "ending"}

\* mqttClient.publish(topic, payload, {retain}); the broker keeps a retained
\* availability payload when the publish reaches it
Publish(S, topic, payload, retain) ==
  LET S1 == [S EXCEPT !.pubs = Append(@, [topic |-> topic, payload |-> payload,
                                          retain |-> retain])]
  IN IF S.mqtt = "connected" /\ retain /\ topic.leaf = "status"
        /\ topic.dev \in DOMAIN S.availability
       THEN [S1 EXCEPT !.availability[topic.dev] = payload]
       ELSE S1

\* publishWidgetValue(deviceId, widgetName, rawValue, retain)
PublishWidgetValue(S, d, name, raw, retain) ==
  IF ~MqttUp(S) THEN S
  ELSE IF name \notin WIDGET_MAPPINGS /\ name \notin DOMAIN CONTROLLABLE_WIDGETS THEN S
  ELSE LET publishValue == IF name = "Status" THEN StatusTransformer(raw) ELSE raw
           sensorId == IF name \in DOMAIN CONTROLLABLE_WIDGETS
                         THEN CONTROLLABLE_WIDGETS[name].topic_id
                         ELSE getTopicId(name)
           S1 == Publish(S, Topic(d, sensorId, "state"), publishValue, retain)
       IN IF name = "Status"
            THEN Publish([S1 EXCEPT !.deviceStatus =
                                       [k \in (DOMAIN @) \cup {d} |->
                                          IF k = d THEN raw ELSE @[k]]],
                         Topic(d, "charging", "state"),
                         IF raw = "2" THEN "ON" ELSE "OFF", retain)
            ELSE S1

\* a faulty variant of the 'widgetUpdate' listener that retains live values
MutWidgetUpdateRetained(S, d, name, val) == PublishWidgetValue(S, d, name, val, TRUE)

\* EviqoMqttGateway.handleWidgetUpdate(update), the 'widgetUpdate' listener
GatewayHandleWidgetUpdate(S, d, name, val) == PublishWidgetValue(S, d, name, val, FALSE)

\* EviqoWebsocketConnection.handleWidgetUpdate(payload) on session t
HandleWidgetUpdate(S, t, f) ==
  IF f.pin = "" \/ f.dev = "" THEN S
  ELSE LET devs == S.sess[t].devices
           hits == {i \in DOMAIN devs : String(devs[i]) = f.dev}
       IN IF hits = {} THEN S
          ELSE LET idx == CHOOSE i \in hits : \A j \in hits : i <= j
                   pinMap == IF idx \in DOMAIN S.sess[t].widgetPinMap
                               THEN S.sess[t].widgetPinMap[idx] ELSE EmptyMap
               IN IF idx \notin DOMAIN S.sess[t].widgetPinMap THEN S
                  ELSE IF f.pin \notin DOMAIN pinMap THEN S
                  ELSE GatewayHandleWidgetUpdate(
                         [S EXCEPT !.emits = Append(@, [s |-> t, dev |-> f.dev, pin |-> f.pin,
                                                        name |-> pinMap[f.pin].name,
                                                        val |-> f.val])],
                         f.dev, pinMap[f.pin].name, f.val)

\* a faulty variant that drops widget updates
MutOnMessageDrop(S, t, f) == S

\* the 'message' handler of listen(): parse, dispatch a widget update
OnMessage(S, t, f) ==
  IF f.kind = "widget" THEN HandleWidgetUpdate(S, t, f) ELSE S

\* a faulty variant of the 'commandSent' listener that echoes nothing
MutCommandSentSilent(S, dev, pin, val) == S

\* handleCommandSent(command), the 'commandSent' listener
HandleCommandSent(S, dev, pin, val) ==
  IF ~MqttUp(S) THEN S
  ELSE IF <<dev, pin>> \notin DOMAIN S.pinToStateTopicMap THEN S
  ELSE Publish(S, S.pinToStateTopicMap[<<dev, pin>>], val, FALSE)

\* this.eviqoClient.sendCommand(deviceId, pin, value), called by handler h:
\* the frame, then the 'commandSent' event
SendCommand(S, h, dev, pin, val) ==
  LET t == S.eviqoClient
      S1 == SendMessage(S, t, Payload(dev, pin, val), COMMAND, NoByte)
      S2 == [S1 EXCEPT !.calls = Append(@, [h |-> h, s |-> t, dev |-> dev, pin |-> pin,
                                           val |-> val, sent |-> S.sess[t].ws = "open"])]
  IN HandleCommandSent(S2, dev, pin, val)

\* a faulty variant that sends the first value only
MutSendFirstOnly(S, h, dev, pin, vals) ==
  IF vals = << >> THEN S ELSE SendCommand(S, h, dev, pin, Head(vals))

RECURSIVE SendCommands(_, _, _, _, _)
SendCommands(S, h, dev, pin, vals) ==
  IF vals = << >> THEN S
  ELSE SendCommands(SendCommand(S, h, dev, pin, Head(vals)), h, dev, pin, Tail(vals))

\* deviceStatus.get(deviceId)
StatusOf(S, dev) == IF dev \in DOMAIN S.deviceStatus THEN S.deviceStatus[dev] ELSE "undefined"

\* faulty variants of the charging table, used to test that the properties
\* below depend on it
MutFirstNone(command, currentStatus) == << >>
MutFirstAlways(command, currentStatus) == <<"2", "0">>
MutSecondShort == <<"2">>

\* handleChargingCommand: the values sent before the first suspension, and
\* whether the 250 ms gap follows
ChargingFirst(command, currentStatus) ==
  IF command = "OFF"
    THEN IF currentStatus # "2" THEN << >> ELSE <<"3", "0">>
  ELSE IF command = "ON"
    THEN CASE currentStatus = "0" -> << >>
           [] currentStatus = "2" -> << >>
           [] currentStatus = "1" -> <<"2", "0">>
           [] currentStatus = "3" -> <<"1", "0">>
           [] OTHER -> << >>
  ELSE << >>
ChargingWaits(command, currentStatus) == command = "ON" /\ currentStatus = "3"
ChargingSecond == <<"2", "0">>

\* handleChargingCommand(deviceId, command) of handler h up to its first
\* suspension: a handler that waits 250 ms is kept in cmds
HandleChargingCommand(S, h, dev, command) ==
  LET currentStatus == StatusOf(S, dev)
      S1 == SendCommands(S, h, dev, chargingPin, ChargingFirst(command, currentStatus))
  IN IF ChargingWaits(command, currentStatus)
       THEN [S1 EXCEPT !.cmds = Append(@, [h |-> h, s |-> S.eviqoClient, dev |-> dev])]
       ELSE S1

\* handleChargingCommand after the 250 ms timer of the i-th waiting
\* handler: this.eviqoClient!.sendCommand throws on a null client and the
\* catch block ends the handler
ChargingResume(S, i) ==
  LET w == S.cmds[i]
      S1 == [S EXCEPT !.cmds = SubSeq(@, 1, i - 1) \o SubSeq(@, i + 1, Len(@))]
  IN IF S.eviqoClient = NoSession THEN S1
     ELSE SendCommands(S1, w.h, w.dev, chargingPin, ChargingSecond)

\* a faulty variant of handleMqttMessage that forwards the payload untrimmed
MutMqttMessageNoTrim(S, topic, message) ==
  LET h == S.ncmds + 1
      S0 == [S EXCEPT !.ncmds = h]
  IN IF S.eviqoClient = NoSession THEN S0
     ELSE IF topic \in DOMAIN S.chargingCommandTopicMap
       THEN HandleChargingCommand(S0, h, S.chargingCommandTopicMap[topic], Trim(message))
     ELSE IF topic \notin DOMAIN S.commandTopicMap THEN S0
     ELSE LET info == S.commandTopicMap[topic]
          IN SendCommand(S0, h, info.deviceId, info.pin, message)

\* handleMqttMessage(topic, message)
HandleMqttMessage(S, topic, message) ==
  LET h == S.ncmds + 1
      S0 == [S EXCEPT !.ncmds = h]
  IN IF S.eviqoClient = NoSession THEN S0
     ELSE IF topic \in DOMAIN S.chargingCommandTopicMap
       THEN HandleChargingCommand(S0, h, S.chargingCommandTopicMap[topic], Trim(message))
     ELSE IF topic \notin DOMAIN S.commandTopicMap THEN S0
     ELSE LET info == S.commandTopicMap[topic]
          IN SendCommand(S0, h, info.deviceId, info.pin, Trim(message))

\* publishDeviceOnline(device)
PublishDeviceOnline(S, page) ==
  IF ~MqttUp(S) THEN S
  ELSE Publish(Publish(S, StatusTopic(String(page.id)), "online", TRUE),
               Topic(String(page.id), "connectivity", "state"), "ON", TRUE)

\* publishDeviceOffline(device)
PublishDeviceOffline(S, page) ==
  IF ~MqttUp(S) THEN S
  ELSE Publish(Publish(S, StatusTopic(String(page.id)), "offline", TRUE),
               Topic(String(page.id), "connectivity", "state"), "OFF", TRUE)

\* publishInitialWidgetValues(device): stream.visualization.value || '0', retained
RECURSIVE PublishInitialFrom(_, _, _)
PublishInitialFrom(S, page, i) ==
  IF i > Len(page.streams) THEN S
  ELSE LET st == page.streams[i]
           rawValue == IF st.value = "" THEN "0" ELSE st.value
       IN PublishInitialFrom(PublishWidgetValue(S, String(page.id), st.name, rawValue, TRUE),
                             page, i + 1)
PublishInitialWidgetValues(S, page) == PublishInitialFrom(S, page, 1)

(************************* Home Assistant discovery ************************)
\* normalizeTopicName(name): lower case, runs of other characters to "_"
normalizeTopicName(name) ==
  CASE name = "Status"       -> "status"
    [] name = "Voltage"      -> "voltage"
    [] name = "Current"      -> "current"
    [] name = "Connectivity" -> "connectivity"
    [] name = "Charging"     -> "charging"
    [] OTHER                 -> "other"

\* discovery topics <discoveryPrefix>/<component>/eviqo_<id>/<objectId>/config
ConfigTopic(component, d, objectId) ==
  [comp |-> component, dev |-> d, ent |-> objectId, leaf |-> "config"]

\* createSensorConfig, createNumberConfig, createBinarySensorConfig and
\* createSwitchConfig: the topic of the config
SensorConfigTopic(d, name) == ConfigTopic("sensor", d, getTopicId(name))
NumberConfigTopic(d, name) ==
  ConfigTopic("number", d, CONTROLLABLE_WIDGETS[name].topic_id \o "_control")
BinarySensorConfigTopic(d, name) == ConfigTopic("binary_sensor", d, normalizeTopicName(name))
SwitchConfigTopic(d, name) == ConfigTopic("switch", d, normalizeTopicName(name))

\* publishDeviceDiscovery(device): the topics it publishes a config on, in
\* order: per stream a sensor (names of WIDGET_MAPPINGS) and a number
\* entity (controllable names), then connectivity and the charging switch
RECURSIVE StreamConfigTopics(_, _, _)
StreamConfigTopics(d, streams, i) ==
  IF i > Len(streams) THEN << >>
  ELSE LET name == streams[i].name
       IN (IF name \in WIDGET_MAPPINGS THEN <<SensorConfigTopic(d, name)>> ELSE << >>)
          \o (IF name \in DOMAIN CONTROLLABLE_WIDGETS
                THEN <<NumberConfigTopic(d, name)>> ELSE << >>)
          \o StreamConfigTopics(d, streams, i + 1)
DiscoveryTopics(page) ==
  StreamConfigTopics(String(page.id), page.streams, 1)
  \o << BinarySensorConfigTopic(String(page.id), "Connectivity"),
        SwitchConfigTopic(String(page.id), "Charging") >>

\* removeDeviceDiscovery(device): the topic of the number entity it clears
NumberRemovalTopic(d, name) ==
  ConfigTopic("number", d, normalizeTopicName(name) \o "_control")

\* removeDeviceDiscovery(device): the topics it clears, in order: per stream
\* the sensor and, for a controllable name, the number entity, then the
\* connectivity sensor, the charging switch and the old charging sensor
RECURSIVE StreamRemovalTopics(_, _, _)
StreamRemovalTopics(d, streams, i) ==
  IF i > Len(streams) THEN << >>
  ELSE LET name == streams[i].name
       IN <<ConfigTopic("sensor", d, normalizeTopicName(name))>>
          \o (IF name \in DOMAIN CONTROLLABLE_WIDGETS
                THEN <<NumberRemovalTopic(d, name)>> ELSE << >>)
          \o StreamRemovalTopics(d, streams, i + 1)
RemovalTopics(page) ==
  StreamRemovalTopics(String(page.id), page.streams, 1)
  \o << ConfigTopic("binary_sensor", String(page.id), "connectivity"),
        ConfigTopic("switch", String(page.id), "charging"),
        ConfigTopic("binary_sensor", String(page.id), "charging") >>

\* publishRetained(client, topic, payload) for each topic of a sequence
RECURSIVE PublishRetainedAll(_, _, _)
PublishRetainedAll(S, topics, payload) ==
  IF topics = << >> THEN S
  ELSE PublishRetainedAll(Publish(S, Head(topics), payload, TRUE), Tail(topics), payload)

\* publishDeviceDiscovery(mqttClient, ..., device), all its publishes
\* acknowledged: each payload is the JSON text of a config
PublishDeviceDiscovery(S, page) == PublishRetainedAll(S, DiscoveryTopics(page), "config")

\* removeDeviceDiscovery(mqttClient, ..., device), all its publishes
\* acknowledged: each payload is the empty string
RemoveDeviceDiscovery(S, page) == PublishRetainedAll(S, RemovalTopics(page), "")

\* subscribeToCommandTopics(device) without the reverse mapping
MutSubscribeNoReverse(S, page) ==
  IF ~MqttUp(S) THEN S
  ELSE LET d == String(page.id)
           ctl == {page.streams[i].name : i \in DOMAIN page.streams}
                    \cap DOMAIN CONTROLLABLE_WIDGETS
           cmdTopic(n) == Topic(d, CONTROLLABLE_WIDGETS[n].topic_id, "set")
           newCmd == {cmdTopic(n) : n \in ctl}
           nameOf(tp) == CHOOSE n \in ctl : cmdTopic(n) = tp
           chargingCommandTopic == Topic(d, "charging", "set")
       IN [S EXCEPT
             !.commandTopicMap =
                [tp \in (DOMAIN @) \cup newCmd |->
                   IF tp \in newCmd
                     THEN [deviceId |-> d, pin |-> CONTROLLABLE_WIDGETS[nameOf(tp)].pin]
                     ELSE @[tp]],
             !.chargingCommandTopicMap =
                [tp \in (DOMAIN @) \cup {chargingCommandTopic} |->
                   IF tp = chargingCommandTopic THEN d ELSE @[tp]],
             !.subs = @ \cup newCmd \cup {chargingCommandTopic},
             !.subscribes = Append(@, [topics |-> newCmd \cup {chargingCommandTopic},
                                       after |-> Len(S.pubs)])]

\* subscribeToCommandTopics(device)
SubscribeToCommandTopics(S, page) ==
  IF ~MqttUp(S) THEN S
  ELSE LET d == String(page.id)
           ctl == {page.streams[i].name : i \in DOMAIN page.streams}
                    \cap DOMAIN CONTROLLABLE_WIDGETS
           cmdTopic(n) == Topic(d, CONTROLLABLE_WIDGETS[n].topic_id, "set")
           newCmd == {cmdTopic(n) : n \in ctl}
           nameOf(tp) == CHOOSE n \in ctl : cmdTopic(n) = tp
           newKeys == {<<d, CONTROLLABLE_WIDGETS[n].pin>> : n \in ctl}
           keyName(k) == CHOOSE n \in ctl : CONTROLLABLE_WIDGETS[n].pin = k[2]
           chargingCommandTopic == Topic(d, "charging", "set")
       IN [S EXCEPT
             !.commandTopicMap =
                [tp \in (DOMAIN @) \cup newCmd |->
                   IF tp \in newCmd
                     THEN [deviceId |-> d, pin |-> CONTROLLABLE_WIDGETS[nameOf(tp)].pin]
                     ELSE @[tp]],
             !.pinToStateTopicMap =
                [k \in (DOMAIN @) \cup newKeys |->
                   IF k \in newKeys
                     THEN Topic(d, CONTROLLABLE_WIDGETS[keyName(k)].topic_id, "state")
                     ELSE @[k]],
             !.chargingCommandTopicMap =
                [tp \in (DOMAIN @) \cup {chargingCommandTopic} |->
                   IF tp = chargingCommandTopic THEN d ELSE @[tp]],
             !.subs = @ \cup newCmd \cup {chargingCommandTopic},
             !.subscribes = Append(@, [topics |-> newCmd \cup {chargingCommandTopic},
                                       after |-> Len(S.pubs)])]

\* a variant that schedules a reconnect after stop() as well
MutScheduleReconnectAlways(S) ==
  [S EXCEPT !.state = "connecting",
            !.orphanTimers = IF S.reconnectTimer = "pending" THEN @ + 1 ELSE @,
            !.reconnectTimer = "pending"]

\* scheduleReconnect(): a 30 s timer whose handle replaces reconnectTimer
ScheduleReconnect(S) ==
  IF S.shutdownRequested THEN S
  ELSE [S EXCEPT !.state = "connecting",
                 !.orphanTimers = IF S.reconnectTimer = "pending" THEN @ + 1 ELSE @,
                 !.reconnectTimer = "pending"]


(***************************** monitorLoop *********************************)
\* the catch block of monitorLoop, then the loop condition
MonitorCatch(S, m) ==
  [ScheduleReconnect(S) EXCEPT !.mon[m].pc = "done"]

\* this.eviqoClient.listen(pollInterval / 1000) of one iteration.  listen()
\* on a client whose socket was never created returns at once: the loop
\* then runs again without ever yielding to the event loop ("spin").
MonitorListen(S, m) ==
  IF S.eviqoClient = NoSession THEN MonitorCatch(S, m)
  ELSE IF S.sess[S.eviqoClient].ws = "null" THEN [S EXCEPT !.mon[m].pc = "spin"]
  ELSE Listen([S EXCEPT !.mon[m].pc = "listen"], S.eviqoClient, "mon", m)

\* a faulty variant that does not test shutdownRequested
MutMonitorIterNoCheck(S, m) ==
  IF S.eviqoClient = NoSession THEN [S EXCEPT !.mon[m].pc = "done"]
  ELSE MonitorListen(S, m)

\* a faulty variant whose keepalive() does not restart the keepalive timer
MutMonitorIterNoRestart(S, m) ==
  IF S.shutdownRequested \/ S.eviqoClient = NoSession
    THEN [S EXCEPT !.mon[m].pc = "done"]
  ELSE LET t == S.eviqoClient
       IN IF S.sess[t].kaDue
            THEN LET S1 == SendMessage(S, t, NoPayload, KEEPALIVE, NoByte)
                 IN IF S.sess[t].ws = "null"
                      THEN MonitorListen(S1, m)
                      ELSE Listen([S1 EXCEPT !.mon[m].pc = "kaListen"], t, "mon", m)
            ELSE MonitorListen(S, m)

\* one iteration of monitorLoop from the while condition to its first wait:
\* keepalive() sends KEEPALIVE and listens when 15 s have passed
MonitorIter(S, m) ==
  IF S.shutdownRequested \/ S.eviqoClient = NoSession
    THEN [S EXCEPT !.mon[m].pc = "done"]
  ELSE LET t == S.eviqoClient
       IN IF S.sess[t].kaDue
            THEN LET S1 == SendMessage([S EXCEPT !.sess[t].kaDue = FALSE],
                                       t, NoPayload, KEEPALIVE, NoByte)
                 IN IF S.sess[t].ws = "null"
                      THEN MonitorListen(S1, m)
                      ELSE Listen([S1 EXCEPT !.mon[m].pc = "kaListen"], t, "mon", m)
            ELSE MonitorListen(S, m)

\* a listen() of the loop returned (a frame, or its timeout)
MonitorResume(S, m) ==
  IF S.mon[m].pc = "kaListen" THEN MonitorListen(S, m) ELSE MonitorIter(S, m)

\* a variant in which no failure of connectEviqo() is tried again
MutConnThrowNoRetry(S, s) ==
  [S EXCEPT !.conn[s].pc = "failed", !.state = "error"]

(***************************** connectEviqo ********************************)
\* connectEviqo() rejected: the catch of start(), or of the reconnect timer
ConnThrow(S, s) ==
  LET S1 == [S EXCEPT !.conn[s].pc = "failed"]
  IN IF S.conn[s].origin = "start"
       THEN [S1 EXCEPT !.state = "error"]
       ELSE ScheduleReconnect(S1)

\* connectEviqo() resolved: setState('connected'); this.monitorLoop()
ConnSuccess(S, s) ==
  MonitorIter([S EXCEPT !.conn[s].pc = "done", !.state = "connected",
                        !.mon[s].pc = "run"], s)

\* a client method called through this.eviqoClient sends a request and
\* listens: the activation waits at pc on the client it called
ConnRequest(S, s, payload, op, b4, pc) ==
  LET t == S.eviqoClient
  IN IF t = NoSession THEN ConnThrow(S, s)
     ELSE IF S.sess[t].ws = "null" THEN ConnThrow(S, s)
     ELSE Listen([SendMessage(S, t, payload, op, b4)
                    EXCEPT !.conn[s].pc = pc, !.conn[s].cur = t],
                 t, "conn", s)

\* the device loop of connectEviqo from entry i: skip documents without a
\* deviceId, request the next device's page, or finish
RECURSIVE NextDevice(_, _, _)
NextDevice(S, s, i) ==
  IF i > Len(DevicesOf(S, S.conn[s].devs)) THEN ConnSuccess(S, s)
  ELSE IF DevicesOf(S, S.conn[s].devs)[i] = NoDeviceId THEN NextDevice(S, s, i + 1)
  ELSE ConnRequest([S EXCEPT !.conn[s].idx = i], s,
                   Payload(String(DevicesOf(S, S.conn[s].devs)[i]), "", ""),
                   DEVICE_NUMBER, NoByte, "devnum")

\* a variant that marks the device online last
MutAfterDiscoveryOnlineLast(S, s) ==
  LET page == S.conn[s].page
  IN NextDevice(PublishDeviceOnline(
                  SubscribeToCommandTopics(PublishInitialWidgetValues(S, page), page), page),
                s, S.conn[s].idx + 1)

\* after publishDeviceDiscovery: online, initial values, subscriptions
AfterDiscovery(S, s) ==
  LET page == S.conn[s].page
  IN NextDevice(SubscribeToCommandTopics(
                  PublishInitialWidgetValues(PublishDeviceOnline(S, page), page), page),
                s, S.conn[s].idx + 1)

\* a faulty variant of AfterPage that never publishes discovery
MutAfterPageNoDiscovery(S, s, f) ==
  IF S.eviqoClient = NoSession \/ f.kind # "page" THEN ConnThrow(S, s)
  ELSE AfterDiscovery([S EXCEPT !.conn[s].page = f.page], s)

\* what devicePages.set stores for a response payload
StoredPage(f) ==
  IF f.kind = "page" THEN f.page ELSE IF f.kind = "null" THEN NullPage ELSE NoPage

\* the result of requestChargingStatus has arrived: devicePages.set, then
\* extractWidgetMappings (which throws on a payload without a dashboard),
\* then publishDeviceDiscovery when there is an MQTT client
AfterPage(S, s, f) ==
  LET d == DevicesOf(S, S.conn[s].devs)[S.conn[s].idx]
      S1 == [S EXCEPT !.devicePages = [k \in (DOMAIN @) \cup {d} |->
                                         IF k = d THEN StoredPage(f) ELSE @[k]]]
      t == S.eviqoClient
      \* this.devices.indexOf(device): -1 when this.devices is another array
      deviceIdx == IF S.devices = S.conn[s].devs THEN S.conn[s].idx ELSE NotFound
  IN IF t = NoSession \/ f.kind # "page" THEN ConnThrow(S1, s)
     ELSE LET S2 == [ExtractWidgetMappings(S1, t, deviceIdx, f.page)
                       EXCEPT !.conn[s].page = f.page]
          IN IF S.mqttClient = "null" THEN AfterDiscovery(S2, s)
             ELSE IF S.mqtt \in {"ending", "ended"} THEN ConnThrow(S2, s)
             ELSE [S2 EXCEPT !.conn[s].pc = "disc",
                             !.conn[s].disc[f.page.id] = @ + 1]

\* the enumeration response has arrived: queryDevices pushes the documents
\* on its client, then this.devices = this.eviqoClient.getDevices()
AfterQuery(S, s, f) ==
  IF f.kind # "docs" THEN ConnThrow(S, s)
  ELSE LET c == S.conn[s].cur
           S1 == [S EXCEPT !.sess[c].devices = @ \o f.devs]
           t == S.eviqoClient
       IN IF t = NoSession THEN ConnThrow(S1, s)
          ELSE IF Len(S1.sess[t].devices) = 0
            THEN ConnThrow([S1 EXCEPT !.devices = t], s)
          ELSE NextDevice([S1 EXCEPT !.devices = t, !.conn[s].devs = t], s, 1)

\* a variant of the handshake that asks for the devices before it logs in
MutConnResumeQueryFirst(S, s, f) ==
  LET pc == S.conn[s].pc
      c == S.conn[s].cur
  IN CASE pc = "init" ->
            IF f.kind = "null" THEN ConnThrow(S, s)
            ELSE ConnRequest(S, s, NoPayload, DEVICE_QUERY, NoByte, "login")
       [] pc = "login" ->
            IF f.kind = "null" THEN ConnThrow(S, s)
            ELSE ConnRequest([S EXCEPT !.sess[c].user = f.kind], s,
                             NoPayload, LOGIN, LoginByte4, "query")
       [] pc = "query" -> AfterQuery(S, s, f)
       [] pc = "devnum" ->
            Listen([SendMessage(S, c,
                                Payload(String(DevicesOf(S, S.conn[s].devs)[S.conn[s].idx]),
                                        "", ""),
                                DEVICE_PAGE, NoByte)
                      EXCEPT !.conn[s].pc = "page"],
                   c, "conn", s)
       [] pc = "page" -> AfterPage(S, s, f)

\* a listen() of the handshake returned f (NullResult on a timeout)
ConnResume(S, s, f) ==
  LET pc == S.conn[s].pc
      c == S.conn[s].cur
  IN CASE pc = "init" ->
            IF f.kind = "null" THEN ConnThrow(S, s)
            ELSE ConnRequest(S, s, NoPayload, LOGIN, LoginByte4, "login")
       [] pc = "login" ->
            IF f.kind = "null" THEN ConnThrow(S, s)
            ELSE ConnRequest([S EXCEPT !.sess[c].user = f.kind], s,
                             NoPayload, DEVICE_QUERY, NoByte, "query")
       [] pc = "query" -> AfterQuery(S, s, f)
       [] pc = "devnum" ->
            Listen([SendMessage(S, c,
                                Payload(String(DevicesOf(S, S.conn[s].devs)[S.conn[s].idx]),
                                        "", ""),
                                DEVICE_PAGE, NoByte)
                      EXCEPT !.conn[s].pc = "page"],
                   c, "conn", s)
       [] pc = "page" -> AfterPage(S, s, f)

\* connect() resolved true: issueInitialization()
AfterConnect(S, s) == ConnRequest(S, s, NoPayload, INIT, InitByte4, "init")

\* connectEviqo() up to its first wait (the fetch inside connect())
ConnectEviqo(S, origin) ==
  LET n == S.nsess + 1
  IN [S EXCEPT !.nsess = n,
               !.eviqoClient = n,
               !.sess[n] = NewSession,
               !.conn[n] = [NoConn EXCEPT !.pc = "fetch", !.origin = origin, !.cur = n]]

(******************************* stop **************************************)
\* the publishDeviceOffline loop of stop() over devicePages.values(); a
\* stored null page makes publishDeviceOffline throw and stop() reject
RECURSIVE OfflineAll(_, _)
OfflineAll(S, ds) ==
  IF ds = {} THEN S
  ELSE LET d == CHOOSE x \in ds : \A y \in ds : x <= y
       IN OfflineAll(PublishDeviceOffline(S, S.devicePages[d]), ds \ {d})

\* stop() up to the callback of mqttClient.end()
StopBegin(S) ==
  LET S1 == [S EXCEPT !.shutdownRequested = TRUE, !.reconnectTimer = "null"]
      nulls == {d \in DOMAIN S.devicePages : S.devicePages[d].kind = "null"}
  IN IF MqttUp(S1) /\ nulls # {}
       THEN OfflineAll(S1, {d \in DOMAIN S.devicePages : \A n \in nulls : d < n})
     ELSE LET S2 == IF MqttUp(S1) THEN OfflineAll(S1, DOMAIN S.devicePages) ELSE S1
          IN IF S2.mqttClient # "null"
               THEN [S2 EXCEPT !.mqtt = "ending", !.stopPc = "ending"]
               ELSE [S2 EXCEPT !.eviqoClient = NoSession, !.state = "disconnected"]

\* stop() after mqttClient.end() called back; a publishDeviceDiscovery
\* still waiting holds the client that has just ended
StopEnd(S) ==
  [S EXCEPT !.conn = [s \in DOMAIN @ |->
                        IF @[s].pc = "disc" THEN [@[s] EXCEPT !.pc = "discEnded"] ELSE @[s]],
            !.mqtt = "ended", !.mqttClient = "null", !.eviqoClient = NoSession,
            !.state = "disconnected", !.stopPc = "idle", !.startPc = "idle"]

(********************** frames from the server *****************************)
\* every 'message' handler registered on the socket runs on the frame
RECURSIVE Dispatch(_, _, _, _)
Dispatch(S, t, f, n) ==
  IF n = 0 THEN S ELSE Dispatch(OnMessage(S, t, f), t, f, n - 1)

\* the activation behind a listener continues with the result of listen()
Resume(S, l, f) ==
  IF l.task = "conn" THEN ConnResume(S, l.id, f) ELSE MonitorResume(S, l.id)

RECURSIVE ResumeAll(_, _, _)
ResumeAll(S, ls, f) ==
  IF ls = << >> THEN S ELSE ResumeAll(Resume(S, Head(ls), f), Tail(ls), f)

\* a binary frame arrives on socket t: the handlers run and remove
\* themselves, then the listen() promises resolve in registration order
Deliver(S, t, f) ==
  LET ls == S.sess[t].listeners
      S1 == Dispatch(S, t, f, Len(ls))
  IN ResumeAll([S1 EXCEPT !.sess[t].listeners = << >>], ls, f)

\* the timeout of one listen() on socket t (its i-th listener)
Timeout(S, t, i) ==
  LET ls == S.sess[t].listeners
  IN Resume([S EXCEPT !.sess[t].listeners =
                        SubSeq(ls, 1, i - 1) \o SubSeq(ls, i + 1, Len(ls))],
            ls[i], NullResult)



(******************************* Init **************************************)
\* the gateway object after its constructor, before start()
Constructed ==
  /\ state = "disconnected"
  /\ shutdownRequested = FALSE
  /\ reconnectTimer = "null"
  /\ orphanTimers = 0
  /\ mqttClient = "null"
  /\ eviqoClient = NoSession
  /\ devices = NoSession
  /\ devicePages = EmptyMap
  /\ deviceStatus = EmptyMap
  /\ commandTopicMap = EmptyMap
  /\ pinToStateTopicMap = EmptyMap
  /\ chargingCommandTopicMap = EmptyMap
  /\ mqtt = "none"
  /\ subs = {}
  /\ availability = [d \in DeviceKeys |-> "none"]
  /\ sess = [s \in Sessions |-> NewSession]
  /\ nsess = 0
  /\ startPc = "idle"
  /\ conn = [s \in Sessions |-> NoConn]
  /\ mon = [s \in Sessions |-> NoMon]
  /\ stopPc = "idle"
  /\ cmds = << >>
  /\ ncmds = 0
  /\ load = 0
  /\ ev = Event("init", 0, NoTopic, "", NoFrame)
  /\ pubs = << >>
  /\ calls = << >>
  /\ frames = << >>
  /\ emits = << >>
  /\ subscribes = << >>

Init == Constructed /\ io = NoIo

\* a monitorLoop that never yields keeps the event loop from running
\* anything else
Spinning == \E m \in Sessions : mon[m].pc = "spin"

Ev(S, kind, id, topic, message, f) ==
  [S EXCEPT !.ev = Event(kind, id, topic, message, f)]

\* a stimulus from outside: the result of the step as its handler left it,
\* with the stimulus counted
Stimulus(S, kind, id, topic, message, f) ==
  [Ev(S, kind, id, topic, message, f) EXCEPT !.load = @ + 1]

(***************************** actions *************************************)
\* no activation of connectEviqo() is waiting
Settled == \A s \in Sessions : ~Waiting(conn[s])

\* the host calls start() on a stopped gateway whose earlier connection
\* attempts have settled: up to the wait inside connectMqtt()
Start ==
  /\ ~Spinning
  /\ state = "disconnected" /\ startPc = "idle" /\ stopPc = "idle" /\ Settled
  /\ load < MaxLoad /\ nsess < MaxSessions
  /\ Commit(Stimulus([Cur EXCEPT !.shutdownRequested = FALSE, !.state = "connecting",
                        !.mqttClient = "client", !.mqtt = "connecting", !.subs = {},
                        !.startPc = "mqtt"],
                 "Start", 0, NoTopic, "", NoFrame))

\* 'connect' of the MQTT client during start(): connectEviqo() begins
MqttConnected ==
  /\ ~Spinning
  /\ startPc = "mqtt" /\ mqtt = "connecting" /\ nsess < MaxSessions
  /\ Commit(Ev(ConnectEviqo([Cur EXCEPT !.mqtt = "connected", !.startPc = "idle"], "start"),
                 "MqttConnected", 0, NoTopic, "", NoFrame))

\* 'error' of the MQTT client during start(): start() rejects
MqttError ==
  /\ ~Spinning
  /\ startPc = "mqtt" /\ mqtt = "connecting"
  /\ Commit(Ev([Cur EXCEPT !.mqtt = "offline", !.startPc = "idle", !.state = "error"],
                 "MqttError", 0, NoTopic, "", NoFrame))

\* the broker connection drops and is re-established by the MQTT client
MqttOffline ==
  /\ ~Spinning
  /\ mqtt = "connected" /\ load < MaxLoad
  /\ Commit(Stimulus([Cur EXCEPT !.mqtt = "offline"],
                 "MqttOffline", 0, NoTopic, "", NoFrame))

MqttOnline ==
  /\ ~Spinning
  /\ mqtt = "offline"
  /\ Commit(Ev([Cur EXCEPT !.mqtt = "connected"],
                 "MqttOnline", 0, NoTopic, "", NoFrame))

\* fetch() of the login page settles; on success the socket is created
FetchDone ==
  \E s \in Sessions, ok \in BOOLEAN :
    /\ ~Spinning
    /\ conn[s].pc = "fetch"
    /\ Commit(Ev(IF ok THEN [Cur EXCEPT !.sess[s].ws = "connecting", !.conn[s].pc = "open"]
                    ELSE ConnThrow(Cur, s),
                 "FetchDone", s, NoTopic, "", NoFrame))

\* 'open' of the socket: connect() resolves true
WsOpened ==
  \E s \in Sessions :
    /\ ~Spinning
    /\ conn[s].pc = "open"
    /\ Commit(Ev(AfterConnect([Cur EXCEPT !.sess[s].ws = "open"], s),
                 "WsOpened", s, NoTopic, "", NoFrame))

\* 'error' of the socket before it opened: connect() rejects
WsOpenFailed ==
  \E s \in Sessions :
    /\ ~Spinning
    /\ conn[s].pc = "open"
    /\ Commit(Ev(ConnThrow([Cur EXCEPT !.sess[s].ws = "closed"], s),
                 "WsOpenFailed", s, NoTopic, "", NoFrame))

\* frames the server sends unasked: widget updates and broken frames
Unsolicited(f) == f.kind = "widget" \/ f \in ShortFrames

\* a binary frame from the server on the open socket of a live connection
\* object: a widget update, a frame shorter than the header, or the answer
\* to the last request
WsMessage ==
  \E t \in Sessions :
    \E f \in WidgetFrames \cup ShortFrames \cup Responses(sess[t].asked) :
      /\ ~Spinning
      /\ sess[t].ws = "open" /\ Referenced(Cur, t)
      /\ Unsolicited(f) => load < MaxLoad
      /\ Commit(Ev(Deliver([Cur EXCEPT !.sess[t].asked =
                                        IF Unsolicited(f) THEN @ ELSE NoRequest,
                                      !.load = IF Unsolicited(f) THEN @ + 1 ELSE @],
                            t, f),
                 "WsMessage", t, NoTopic, "", f))

\* the timer of a listen() fires
ListenTimeout ==
  \E t \in Sessions :
    \E i \in DOMAIN sess[t].listeners :
      /\ ~Spinning
      /\ Commit(Ev(Timeout(Cur, t, i),
                 "ListenTimeout", t, NoTopic, "", NoFrame))

\* the socket closes: 'connectionClosed' is emitted, nobody listens to it
WsClose ==
  \E t \in Sessions :
    /\ ~Spinning
    /\ sess[t].ws = "open" /\ load < MaxLoad
    /\ Commit(Stimulus([Cur EXCEPT !.sess[t].ws = "closed"],
                 "WsClose", t, NoTopic, "", NoFrame))

\* 15 s have passed since the keepalive timer of a client was set
KeepaliveDue ==
  \E t \in Sessions :
    /\ ~Spinning
    /\ Referenced(Cur, t) /\ ~sess[t].kaDue /\ load < MaxLoad
    /\ Commit(Stimulus([Cur EXCEPT !.sess[t].kaDue = TRUE],
                 "KeepaliveDue", t, NoTopic, "", NoFrame))

\* the discovery configs of a device have been published
DiscoveryDone ==
  \E s \in Sessions :
    /\ ~Spinning
    /\ conn[s].pc = "disc" /\ mqtt \in {"connected", "ending"}
    /\ Commit(Ev(AfterDiscovery(PublishDeviceDiscovery(Cur, conn[s].page), s),
                 "DiscoveryDone", s, NoTopic, "", NoFrame))

\* a discovery publish fails because the MQTT client is ending or has ended
DiscoveryFailed ==
  \E s \in Sessions :
    /\ ~Spinning
    /\ \/ conn[s].pc = "disc" /\ mqtt = "ending"
       \/ conn[s].pc = "discEnded"
    /\ Commit(Ev(ConnThrow(Cur, s),
                 "DiscoveryFailed", s, NoTopic, "", NoFrame))

\* 'message' of the MQTT client: on a subscribed topic, or on a topic the
\* broker still holds a subscription for from an earlier run
MqttMessage ==
  \E topic \in subs \cup {ForeignTopic}, message \in Payloads :
    /\ ~Spinning
    /\ mqtt = "connected" /\ load < MaxLoad
    /\ Commit(Stimulus(HandleMqttMessage(Cur, topic, message),
                 "MqttMessage", ncmds + 1, topic, message, NoFrame))

\* the 250 ms timer of a charging handler fires
Timer250 ==
  \E i \in DOMAIN cmds :
    /\ ~Spinning
    /\ Commit(Ev(ChargingResume(Cur, i),
                 "Timer250", cmds[i].h, NoTopic, "", NoFrame))

\* the host calls stop()
Stop ==
  /\ ~Spinning
  /\ stopPc = "idle" /\ load < MaxLoad
  /\ Commit(Stimulus(StopBegin(Cur),
                 "Stop", 0, NoTopic, "", NoFrame))

\* the callback of mqttClient.end()
MqttEnded ==
  /\ ~Spinning
  /\ stopPc = "ending"
  /\ Commit(Ev(StopEnd(Cur),
                 "MqttEnded", 0, NoTopic, "", NoFrame))

\* the 30 s reconnect timer fires: connectEviqo() begins.  A timer whose
\* handle was overwritten by a later scheduleReconnect() fires as well.
ReconnectFire ==
  \E orphan \in BOOLEAN :
    /\ ~Spinning
    /\ nsess < MaxSessions
    /\ IF orphan THEN orphanTimers > 0 ELSE reconnectTimer = "pending"
    /\ Commit(Ev(ConnectEviqo(IF orphan THEN [Cur EXCEPT !.orphanTimers = @ - 1]
                                     ELSE [Cur EXCEPT !.reconnectTimer = "fired"],
                           "reconnect"),
                 "ReconnectFire", nsess + 1, NoTopic, "", NoFrame))

Next ==
  \/ Start \/ MqttConnected \/ MqttError \/ MqttOffline \/ MqttOnline
  \/ FetchDone \/ WsOpened \/ WsOpenFailed \/ WsMessage \/ ListenTimeout
  \/ WsClose \/ KeepaliveDue \/ DiscoveryDone \/ DiscoveryFailed
  \/ MqttMessage \/ Timer250 \/ Stop \/ MqttEnded \/ ReconnectFire

Spec == Init /\ [][Next]_vars

(************ the discovery and widget-map functions on any page ***********)
\* pages of device 1 with up to MaxStreams streams, over few enough names,
\* pins and ids that streams share them
FnStreams == {Stream(i, n, p, "0") : i \in {101, 102}, n \in {"Status", "Current", "Voltage"},
                                     p \in {"1", "3"}}
FnPages ==
  {[kind |-> "page", id |-> 1, streams |-> s] :
     s \in UNION {[1..n -> FnStreams] : n \in 0..MaxStreams}}

\* EviqoMqttGateway.removeDiscovery(): throws without a connected MQTT
\* client, else removeDeviceDiscovery for each stored page in order (a
\* stored null makes removeDeviceDiscovery throw and ends the loop)
RECURSIVE RemoveAll(_, _)
RemoveAll(S, ds) ==
  IF ds = {} THEN S
  ELSE LET d == CHOOSE x \in ds : \A y \in ds : x <= y
       IN IF S.devicePages[d].kind = "null" THEN S
          ELSE RemoveAll(RemoveDeviceDiscovery(S, S.devicePages[d]), ds \ {d})
RemoveDiscovery(S) ==
  IF ~MqttUp(S) THEN S ELSE RemoveAll(S, DOMAIN S.devicePages)

\* A gateway with MQTT connected that holds a page of device 1, and a
\* client that has enumerated the device and has not seen a page yet
FnInit ==
  /\ state = "connecting"
  /\ shutdownRequested = FALSE
  /\ reconnectTimer = "null"
  /\ orphanTimers = 0
  /\ mqttClient = "client"
  /\ eviqoClient = 1
  /\ devices = NoSession
  /\ devicePages \in {[d \in {1} |-> page] : page \in FnPages}
  /\ deviceStatus = EmptyMap
  /\ commandTopicMap = EmptyMap
  /\ pinToStateTopicMap = EmptyMap
  /\ chargingCommandTopicMap = EmptyMap
  /\ mqtt = "connected"
  /\ subs = {}
  /\ availability = [d \in DeviceKeys |-> "none"]
  /\ sess = [s \in Sessions |->
               IF s = 1 THEN [NewSession EXCEPT !.ws = "open", !.devices = <<1>>]
               ELSE NewSession]
  /\ nsess = 1
  /\ startPc = "idle"
  /\ conn = [s \in Sessions |-> NoConn]
  /\ mon = [s \in Sessions |-> NoMon]
  /\ stopPc = "idle"
  /\ cmds = << >>
  /\ ncmds = 0
  /\ load = 0
  /\ ev = Event("init", 0, NoTopic, "", NoFrame)
  /\ pubs = << >>
  /\ calls = << >>
  /\ frames = << >>
  /\ emits = << >>
  /\ subscribes = << >>
  /\ io = NoIo

\* extractWidgetMappings(deviceIdx, page) on the client, once
FnExtract ==
  /\ sess[1].widgetPinMap = EmptyMap
  /\ Commit(Ev(ExtractWidgetMappings(Cur, 1, 1, devicePages[1]),
               "Extract", 1, NoTopic, "", NoFrame))

\* publishDeviceDiscovery(mqttClient, ..., page)
FnPublishDiscovery ==
  Commit(Ev(PublishDeviceDiscovery(Cur, devicePages[1]),
            "PublishDiscovery", 1, NoTopic, "", NoFrame))

\* the host calls removeDiscovery()
FnRemoveDiscovery ==
  Commit(Ev(RemoveDiscovery(Cur), "RemoveDiscovery", 1, NoTopic, "", NoFrame))

FnNext == FnExtract \/ FnPublishDiscovery \/ FnRemoveDiscovery

FnSpec == FnInit /\ [][FnNext]_vars

(******************* the codec functions on their inputs *******************)
\* texts: "51627", "1", "3", "15", "32", "", "17", "test", "in", "{}"
T51627 == <<53, 49, 54, 50, 55>>
CodecDevices == {T51627, <<49>>}
CodecPins == {<<51>>, <<49, 53>>}
CodecValues == {<<51, 50>>, <<49>>, << >>}
CodecTypes == {LOGIN, KEEPALIVE, COMMAND, DEVICE_NUMBER}
CodecIds == {0, 5, 187, 65535}
CodecPayloads == {NullValue, JsonValue(<<123, 125>>), StringValue(<<49, 55>>),
                  StringValue(<<116, 101, 115, 116>>)}
\* deviceId NUL "vw" NUL pin NUL value, as the server sends it
Record(dev, pin, value) == dev \o <<NUL>> \o VW \o <<NUL>> \o pin \o <<NUL>> \o value
\* records of another shape: empty, text without separator, two fields,
\* a second field that is not "vw"
BadRecords == {<< >>, <<105, 110>>, <<49, NUL, 51>>,
               <<49, NUL, 120, 120, NUL, 51, NUL, 50>>}
\* inbound frames: shorter than the header, header only, widget updates of
\* both opcodes, a widget frame with a record of another shape, JSON, text
RawFrames ==
  {<< >>, <<1>>, <<1, 2>>, <<1, 2, 3>>, <<1, 2, 3, 4>>,
   <<0, COMMAND, 0, 0>> \o Record(T51627, <<51>>, <<51, 50>>),
   <<0, USER_UPDATE, 0, 0>> \o Record(T51627, <<51>>, <<51, 50>>),
   <<0, COMMAND, 0, 0>> \o <<105, 110>>,
   <<0, LOGIN, 0, 1>> \o <<123, 125>>,
   <<0, DEVICE_NUMBER, 0, 2>> \o <<49, 55>>}

CodecCall(kind, type, id, payload, dev, pin, value, bytes) ==
  [kind |-> kind, type |-> type, id |-> id, payload |-> payload,
   dev |-> dev, pin |-> pin, value |-> value, bytes |-> bytes, stage |-> "input",
   parsed |-> [header |-> NullHeader, payload |-> NullValue],
   update |-> WidgetError("")]
CodecInputs ==
  {CodecCall("frame", ty, id, pl, << >>, << >>, << >>, << >>) :
     ty \in CodecTypes, id \in CodecIds, pl \in CodecPayloads}
  \cup {CodecCall("command", COMMAND, id, NullValue, d, p, v, << >>) :
          id \in CodecIds, d \in CodecDevices, p \in CodecPins, v \in CodecValues}
  \cup {CodecCall("raw", 0, 0, NullValue, << >>, << >>, << >>, b) : b \in RawFrames}
  \cup {CodecCall("record", 0, 0, NullValue, d, p, v, Record(d, p, v)) :
          d \in CodecDevices, p \in CodecPins, v \in CodecValues}
  \cup {CodecCall("badrecord", 0, 0, NullValue, << >>, << >>, << >>, b) : b \in BadRecords}

CodecInit == Constructed /\ io \in CodecInputs

\* createBinaryMessage(payload, messageType, messageId)
CodecEncode ==
  /\ io.kind = "frame" /\ io.stage = "input"
  /\ Commit(Ev([Cur EXCEPT !.io.bytes = createBinaryMessage(io.payload, io.type, io.id),
                           !.io.stage = "encoded"],
               "Encode", 0, NoTopic, "", NoFrame))

\* createCommandMessage(deviceId, pin, value, messageId)
CodecCommand ==
  /\ io.kind = "command" /\ io.stage = "input"
  /\ Commit(Ev([Cur EXCEPT !.io.bytes = createCommandMessage(io.dev, io.pin, io.value, io.id),
                           !.io.stage = "encoded"],
               "Command", 0, NoTopic, "", NoFrame))

\* parseBinaryMessage(message) on the bytes an encoder produced, or on an
\* inbound frame
CodecDecode ==
  /\ \/ io.kind \in {"frame", "command"} /\ io.stage = "encoded"
     \/ io.kind = "raw" /\ io.stage = "input"
  /\ Commit(Ev([Cur EXCEPT !.io.parsed = parseBinaryMessage(io.bytes),
                           !.io.stage = "decoded"],
               "Decode", 0, NoTopic, "", NoFrame))

\* parseWidgetUpdate(payloadData)
CodecParseWidget ==
  /\ io.kind \in {"record", "badrecord"} /\ io.stage = "input"
  /\ Commit(Ev([Cur EXCEPT !.io.update = parseWidgetUpdate(io.bytes),
                           !.io.stage = "parsed"],
               "ParseWidget", 0, NoTopic, "", NoFrame))

CodecNext == CodecEncode \/ CodecCommand \/ CodecDecode \/ CodecParseWidget

CodecSpec == CodecInit /\ [][CodecNext]_vars

(****************** sendMessage on a long-lived session *******************)
\* values of messageCounter after that many counted sends on one session:
\* a fresh session, and sessions about to pass the one-byte and the
\* two-byte width of the id in the header
OneByteIds == 256
TwoByteIds == 65536
WrapCounters == {0, OneByteIds - 2, OneByteIds - 1, TwoByteIds - 2, TwoByteIds - 1}

\* a connected gateway whose client has sent that many counted frames
WrapInit ==
  /\ state = "connected"
  /\ shutdownRequested = FALSE
  /\ reconnectTimer = "null"
  /\ orphanTimers = 0
  /\ mqttClient = "client"
  /\ eviqoClient = 1
  /\ devices = NoSession
  /\ devicePages = EmptyMap
  /\ deviceStatus = EmptyMap
  /\ commandTopicMap = EmptyMap
  /\ pinToStateTopicMap = EmptyMap
  /\ chargingCommandTopicMap = EmptyMap
  /\ mqtt = "connected"
  /\ subs = {}
  /\ availability = [d \in DeviceKeys |-> "none"]
  /\ \E c \in WrapCounters, w \in {"open", "closed"} :
       sess = [s \in Sessions |->
                 IF s = 1 THEN [NewSession EXCEPT !.ws = w, !.messageCounter = c,
                                                  !.user = "json"]
                 ELSE NewSession]
  /\ nsess = 1
  /\ startPc = "idle"
  /\ conn = [s \in Sessions |-> NoConn]
  /\ mon = [s \in Sessions |-> NoMon]
  /\ stopPc = "idle"
  /\ cmds = << >>
  /\ ncmds = 0
  /\ load = 0
  /\ ev = Event("init", 0, NoTopic, "", NoFrame)
  /\ pubs = << >>
  /\ calls = << >>
  /\ frames = << >>
  /\ emits = << >>
  /\ subscribes = << >>
  /\ io = NoIo

\* keepalive(): sendMessage(null, 0x00, 0x06, 0x00) with the counter
WrapKeepalive ==
  /\ load < MaxLoad
  /\ Commit(Stimulus(SendMessage(Cur, 1, NoPayload, KEEPALIVE, NoByte),
                      "Keepalive", 1, NoTopic, "", NoFrame))

\* sendCommand(deviceId, pin, value)
WrapSendCommand ==
  \E val \in {"16", "32"} :
    /\ load < MaxLoad
    /\ Commit(Stimulus(SendCommand(Cur, 0, "1", "3", val),
                        "SendCommand", 1, NoTopic, val, NoFrame))

\* a send with byte4 given, as login() does
WrapSendFixed ==
  /\ load < MaxLoad
  /\ Commit(Stimulus(SendMessage(Cur, 1, NoPayload, LOGIN, LoginByte4),
                      "SendFixed", 1, NoTopic, "", NoFrame))

WrapNext == WrapKeepalive \/ WrapSendCommand \/ WrapSendFixed

WrapSpec == WrapInit /\ [][WrapNext]_vars

(************** the monitor loop on a silent connection *******************)
\* the keepalive windows that have passed in a row without an inbound
\* frame: listen() calls of keepalive() that ran into their timeout
MaxMissed == 3
KaIo(missed) == [kind |-> "ka", missed |-> missed]

\* the command maps and subscriptions after connectEviqo() for device 1
KaSubscribed ==
  SubscribeToCommandTopics(
    [mqttClient |-> "client", mqtt |-> "connected", commandTopicMap |-> EmptyMap,
     pinToStateTopicMap |-> EmptyMap, chargingCommandTopicMap |-> EmptyMap,
     subs |-> {}, subscribes |-> << >>, pubs |-> << >>],
    Page(1))

\* a connected gateway whose monitorLoop waits in its listen()
KaInit ==
  /\ state = "connected"
  /\ shutdownRequested = FALSE
  /\ reconnectTimer = "null"
  /\ orphanTimers = 0
  /\ mqttClient = "client"
  /\ eviqoClient = 1
  /\ devices = 1
  /\ devicePages = [d \in {1} |-> Page(1)]
  /\ deviceStatus = [d \in {"1"} |-> "3"]
  /\ commandTopicMap = KaSubscribed.commandTopicMap
  /\ pinToStateTopicMap = KaSubscribed.pinToStateTopicMap
  /\ chargingCommandTopicMap = KaSubscribed.chargingCommandTopicMap
  /\ mqtt = "connected"
  /\ subs = KaSubscribed.subs
  /\ availability = [d \in DeviceKeys |-> IF d = "1" THEN "online" ELSE "none"]
  /\ \E w \in {"open", "closed"} :
       sess = [s \in Sessions |->
                 IF s = 1
                   THEN ExtractWidgetMappings(
                          [sess |-> [t \in Sessions |->
                                       [NewSession EXCEPT !.ws = w, !.user = "json",
                                                          !.devices = <<1>>,
                                                          !.messageCounter = 3,
                                                          !.lastId = 2,
                                                          !.listeners = <<[task |-> "mon",
                                                                           id |-> 1]>>]]],
                          1, 1, Page(1)).sess[1]
                   ELSE NewSession]
  /\ nsess = 1
  /\ startPc = "idle"
  /\ conn = [s \in Sessions |-> IF s = 1 THEN [NoConn EXCEPT !.pc = "done"] ELSE NoConn]
  /\ mon = [s \in Sessions |-> IF s = 1 THEN [pc |-> "listen"] ELSE NoMon]
  /\ stopPc = "idle"
  /\ cmds = << >>
  /\ ncmds = 0
  /\ load = 0
  /\ ev = Event("init", 0, NoTopic, "", NoFrame)
  /\ pubs = << >>
  /\ calls = << >>
  /\ frames = << >>
  /\ emits = << >>
  /\ subscribes = << >>
  /\ io = KaIo(0)

\* 15 s have passed since the keepalive timer was set
KaDue ==
  /\ ~sess[1].kaDue /\ load < MaxLoad
  /\ Commit(Stimulus([Cur EXCEPT !.sess[1].kaDue = TRUE],
                      "KeepaliveDue", 1, NoTopic, "", NoFrame))

\* a listen() of the loop runs into its timeout; when it is the listen()
\* of keepalive(), one more window has passed without a frame
KaTimeout ==
  \E i \in DOMAIN sess[1].listeners :
    /\ io.missed < MaxMissed
    /\ Commit([Ev(Timeout(Cur, 1, i), "ListenTimeout", 1, NoTopic, "", NoFrame)
                 EXCEPT !.io = KaIo(IF mon[1].pc = "kaListen"
                                      THEN io.missed + 1 ELSE io.missed)])

\* a frame arrives on the open socket
KaFrame ==
  \E f \in WidgetFrames \cup {[kind |-> "json"]} :
    /\ sess[1].ws = "open" /\ load < MaxLoad
    /\ Commit([Stimulus(Deliver(Cur, 1, f), "WsMessage", 1, NoTopic, "", f)
                 EXCEPT !.io = KaIo(0)])

KaNext == KaDue \/ KaTimeout \/ KaFrame

KaSpec == KaInit /\ [][KaNext]_vars

(************** two monitor loops after stop() and start() ****************)
\* stop() leaves the socket of its session open and its monitorLoop waiting
\* in listen(); after the next start() has completed, the loop of the first
\* session and the loop of the second are both alive
LoopSession(s) ==
  ExtractWidgetMappings(
    [sess |-> [t \in Sessions |->
                 [NewSession EXCEPT !.ws = "open", !.user = "json",
                                    !.devices = <<1>>,
                                    !.messageCounter = 4,
                                    !.lastId = 3,
                                    !.listeners = <<[task |-> "mon", id |-> t]>>]]],
    s, 1, Page(1)).sess[s]

LoopsInit ==
  /\ state = "connected"
  /\ shutdownRequested = FALSE
  /\ reconnectTimer = "null"
  /\ orphanTimers = 0
  /\ mqttClient = "client"
  /\ eviqoClient = MaxSessions
  /\ devices = MaxSessions
  /\ devicePages = [d \in {1} |-> Page(1)]
  /\ deviceStatus = [d \in {"1"} |-> "3"]
  /\ commandTopicMap = KaSubscribed.commandTopicMap
  /\ pinToStateTopicMap = KaSubscribed.pinToStateTopicMap
  /\ chargingCommandTopicMap = KaSubscribed.chargingCommandTopicMap
  /\ mqtt = "connected"
  /\ subs = KaSubscribed.subs
  /\ availability = [d \in DeviceKeys |-> IF d = "1" THEN "online" ELSE "none"]
  /\ sess = [s \in Sessions |-> LoopSession(s)]
  /\ nsess = MaxSessions
  /\ startPc = "idle"
  /\ conn = [s \in Sessions |-> [NoConn EXCEPT !.pc = "done"]]
  /\ mon \in [Sessions -> {[pc |-> "listen"], [pc |-> "kaListen"]}]
  /\ stopPc = "idle"
  /\ cmds = << >>
  /\ ncmds = 0
  /\ load = 0
  /\ ev = Event("init", 0, NoTopic, "", NoFrame)
  /\ pubs = << >>
  /\ calls = << >>
  /\ frames = << >>
  /\ emits = << >>
  /\ subscribes = << >>
  /\ io = NoIo

\* the host calls start() again: up to the wait inside connectMqtt(), which
\* lasts as long as the broker takes to answer
LoopsStart ==
  /\ state = "disconnected" /\ startPc = "idle" /\ stopPc = "idle"
  /\ load < MaxLoad
  /\ Commit(Stimulus([Cur EXCEPT !.shutdownRequested = FALSE, !.state = "connecting",
                        !.mqttClient = "client", !.mqtt = "connecting", !.subs = {},
                        !.startPc = "mqtt"],
                 "Start", 0, NoTopic, "", NoFrame))

\* a reconnect timer fires, the one reconnectTimer holds or one whose
\* handle was overwritten: connectEviqo() begins.  The new connection object
\* takes the place of one that nothing refers to any more.
LoopsFire ==
  \E orphan \in BOOLEAN, n \in Sessions :
    /\ IF orphan THEN orphanTimers > 0 ELSE reconnectTimer = "pending"
    /\ ~Referenced(Cur, n) /\ mon[n].pc = "done" /\ ~Waiting(conn[n])
    /\ Commit(Ev([ConnectEviqo(IF orphan
                                 THEN [Cur EXCEPT !.orphanTimers = @ - 1, !.nsess = n - 1]
                                 ELSE [Cur EXCEPT !.reconnectTimer = "fired",
                                                  !.nsess = n - 1],
                               "reconnect")
                    EXCEPT !.nsess = nsess],
                 "ReconnectFire", n, NoTopic, "", NoFrame))

LoopsNext ==
  \/ Stop \/ MqttEnded \/ LoopsStart \/ ListenTimeout \/ KeepaliveDue \/ WsMessage
  \/ LoopsFire

LoopsSpec == LoopsInit /\ [][LoopsNext]_vars

(***************************** properties **********************************)
\* C1: while a charging sequence is in progress on a session, its 250 ms
\* wait included, no command frame of any other handler is emitted on that
\* session.
C1_SequenceExclusive ==
  [][\A i \in DOMAIN cmds : \A k \in DOMAIN calls' :
        (calls'[k].sent /\ calls'[k].s = cmds[i].s) => calls'[k].h = cmds[i].h]_vars

\* the values of the sendCommand calls of a step, and whether all of them
\* are for pin "15" of device d
CallVals(cs) == [k \in DOMAIN cs |-> cs[k].val]
OnChargingPin(cs, d) == \A k \in DOMAIN cs : cs[k].pin = chargingPin /\ cs[k].dev = d

\* this step handles MQTT message m on the charging/set topic of a device
\* whose recorded status is st ("undefined": none recorded)
ChargingStep(m, st) ==
  /\ ncmds' = ncmds + 1
  /\ ev'.kind = "MqttMessage"
  /\ ev'.topic.ent = "charging" /\ ev'.topic.leaf = "set"
  /\ Trim(ev'.message) = m
  /\ st = IF ev'.topic.dev \in DOMAIN deviceStatus
            THEN deviceStatus[ev'.topic.dev] ELSE "undefined"

\* the handler h that waited 250 ms resumes in this step
ResumeStep(h) ==
  /\ ev'.kind = "Timer250" /\ ev'.id = h
  /\ \E i \in DOMAIN cmds : cmds[i].h = h
  /\ \A i \in DOMAIN cmds' : cmds'[i].h # h

C3_StartFromPlugged ==
  [][ChargingStep("ON", "1") =>
        /\ CallVals(calls') = <<"2", "0">>
        /\ OnChargingPin(calls', ev'.topic.dev)
        /\ cmds' = cmds]_vars

C3_Witness ==
  /\ ev.kind = "MqttMessage" /\ ev.topic = Topic("1", "charging", "set")
  /\ Trim(ev.message) = "ON"
  /\ CallVals(calls) = <<"2", "0">>

\* C4: 'OFF' on charging/set at status "2" issues exactly two sendCommand
\* calls for the device on pin "15", "3" then "0".
C4_StopFromCharging ==
  [][ChargingStep("OFF", "2") =>
        /\ CallVals(calls') = <<"3", "0">>
        /\ OnChargingPin(calls', ev'.topic.dev)
        /\ cmds' = cmds]_vars

C4_Witness ==
  /\ ev.kind = "MqttMessage" /\ ev.topic = Topic("1", "charging", "set")
  /\ Trim(ev.message) = "OFF"
  /\ CallVals(calls) = <<"3", "0">>

\* the rows of the charging table that send commands
SendingRow(m, st) ==
  \/ m = "ON" /\ st = "3"
  \/ m = "ON" /\ st = "1"
  \/ m = "OFF" /\ st = "2"

C6_IdsIncrease ==
  \A k \in DOMAIN frames :
    frames[k].prev # NoByte => frames[k].id > frames[k].prev

\* C7: when the socket of the gateway's client has closed in state
\* 'connected' without a shutdown request, the gateway has scheduled a
\* reconnect (or left 'connected') by the time the monitor loop's listen()
\* on that socket has run out.
C7_ClosureLeadsToReconnect ==
  [][(/\ ev.kind = "WsClose" /\ ev.id = eviqoClient
      /\ state = "connected" /\ ~shutdownRequested
      /\ ev'.kind = "ListenTimeout" /\ ev'.id = ev.id)
        => (reconnectTimer' = "pending" \/ state' # "connected")]_vars

\* C8: when the socket of the gateway's client has closed while the broker
\* is connected, no device is left 'online' on its availability topic.
C8_OfflineOnLoss ==
  (ev.kind = "WsClose" /\ ev.id = eviqoClient /\ mqtt = "connected")
    => \A d \in DOMAIN availability : availability[d] # "online"

\* the devices of the array a connectEviqo() activation iterates
Enumerated(s) ==
  {sess[conn[s].devs].devices[i] : i \in DOMAIN sess[conn[s].devs].devices} \ {NoDeviceId}

\* C9: when connectEviqo() has succeeded, publishDeviceDiscovery has been
\* invoked by it exactly once for each enumerated device with a deviceId
\* and for no other device.
C9_DiscoveryOncePerDevice ==
  \A s \in Sessions :
    (conn[s].pc = "done" /\ conn[s].devs # NoSession) =>
      \A d \in DeviceIds :
        conn[s].disc[d] = IF d \in Enumerated(s) THEN 1 ELSE 0

\* connectEviqo() has succeeded for two devices
C9_Witness ==
  \E s \in Sessions :
    /\ conn[s].pc = "done" /\ conn[s].devs # NoSession
    /\ Enumerated(s) = {1, 2}
    /\ conn[s].disc[1] = 1 /\ conn[s].disc[2] = 1

\* C10: a widget update that arrives while login, queryDevices or
\* requestChargingStatus awaits its response does not complete the
\* request: the activation keeps waiting and neither the user record nor
\* the device list nor a device page is stored from it.
C10_WidgetNeverResult ==
  [][(ev'.kind = "WsMessage" /\ ev'.frame = "widget") =>
        \A s \in Sessions :
          (conn[s].pc \in {"login", "query", "devnum", "page"} /\ conn[s].cur = ev'.id) =>
             /\ conn'[s].pc = conn[s].pc
             /\ sess'[ev'.id].user = sess[ev'.id].user
             /\ sess'[ev'.id].devices = sess[ev'.id].devices
             /\ devicePages' = devicePages]_vars

\* a listen() issued after a send is outstanding on socket t: one of the
\* handshake, or the one inside keepalive()
RequestPending(t) ==
  \E i \in DOMAIN sess[t].listeners :
    \/ sess[t].listeners[i].task = "conn"
    \/ sess[t].listeners[i].task = "mon" /\ mon[sess[t].listeners[i].id].pc = "kaListen"

\* the client t knows the device and the pin of widget update w
KnownWidget(t, w) ==
  \E i \in DOMAIN sess[t].devices :
    /\ String(sess[t].devices[i]) = w.dev
    /\ \A j \in DOMAIN sess[t].devices : String(sess[t].devices[j]) = w.dev => i <= j
    /\ i \in DOMAIN sess[t].widgetPinMap
    /\ w.pin \in DOMAIN sess[t].widgetPinMap[i]

\* C11: a widget update that arrives while a request is pending is still
\* dispatched: for a known device and pin a 'widgetUpdate' event with the
\* frame's device, pin and value is emitted in the same step.
C11_WidgetDispatchedWhilePending ==
  [][(/\ ev'.kind = "WsMessage" /\ ev'.frame = "widget"
      /\ RequestPending(ev'.id)
      /\ ev'.widget.pin # "" /\ ev'.widget.dev # ""
      /\ KnownWidget(ev'.id, ev'.widget))
        => \E k \in DOMAIN emits' :
             /\ emits'[k].s = ev'.id
             /\ emits'[k].dev = ev'.widget.dev
             /\ emits'[k].pin = ev'.widget.pin
             /\ emits'[k].val = ev'.widget.val]_vars

\* a widget update has completed a pending request of the handshake and
\* has been emitted as a 'widgetUpdate' event as well
C11_Witness ==
  /\ ev.kind = "WsMessage" /\ ev.frame = "widget"
  /\ emits # << >>
  /\ \E s \in Sessions : conn[s].cur = ev.id /\ conn[s].pc \in {"failed", "disc", "page"}

\* the step publishes payload m, retained, on topic tp
PublishedRetained(ps, tp, m) ==
  \E k \in DOMAIN ps : ps[k].topic = tp /\ ps[k].payload = m /\ ps[k].retain

\* C12: stop() called while MQTT is connected publishes retained 'offline'
\* and retained 'OFF' for every device in devicePages and then ends the
\* MQTT client; when the client has ended, shutdownRequested is true, the
\* reconnect timer is cleared, mqttClient and eviqoClient are null and the
\* state is 'disconnected'.
C12_StopPublishesAndClears ==
  [][/\ (ev'.kind = "Stop" /\ mqttClient # "null" /\ mqtt = "connected") =>
          /\ \A d \in DOMAIN devicePages :
               /\ PublishedRetained(pubs', StatusTopic(String(d)), "offline")
               /\ PublishedRetained(pubs', Topic(String(d), "connectivity", "state"), "OFF")
          /\ mqtt' = "ending" /\ stopPc' = "ending"
          /\ shutdownRequested' /\ reconnectTimer' = "null"
     /\ ev'.kind = "MqttEnded" =>
          /\ shutdownRequested' /\ reconnectTimer' = "null"
          /\ mqttClient' = "null" /\ eviqoClient' = NoSession
          /\ state' = "disconnected"]_vars

\* the listen() of monitor loop m is registered on socket t
MonListens(t, m) ==
  \E i \in DOMAIN sess[t].listeners : sess[t].listeners[i] = [task |-> "mon", id |-> m]

\* the step resumes every listen() on its socket (a frame), or the only one
\* (its timeout)
ResumesAll ==
  \/ ev'.kind = "WsMessage"
  \/ ev'.kind = "ListenTimeout" /\ Len(sess[ev'.id].listeners) = 1

\* C13: while shutdownRequested is set (stop() has been called and start()
\* has not been called again) no reconnect timer fires connectEviqo, no
\* reconnect is scheduled, no KEEPALIVE of a new iteration is sent, and a
\* monitor loop whose listen() returns exits at its condition check.
C13_NothingNewAfterStop ==
  [][(shutdownRequested /\ shutdownRequested') =>
        /\ ev'.kind # "ReconnectFire"
        /\ nsess' = nsess
        /\ reconnectTimer' # "pending"
        /\ \A k \in DOMAIN frames' : frames'[k].op # KEEPALIVE
        /\ \A m \in Sessions :
             (mon[m].pc = "listen" /\ ResumesAll /\ MonListens(ev'.id, m))
               => mon'[m].pc = "done"]_vars

\* stop() has been called, the MQTT client is still ending, and the
\* listen() of the monitor loop has run out: the loop has ended
C13_Witness ==
  /\ shutdownRequested /\ stopPc = "ending"
  /\ ev.kind = "ListenTimeout"
  /\ sess[ev.id].listeners = << >>
  /\ \E m \in Sessions : mon[m].pc = "done"

\* the text the claim assigns to a raw Status value
StatusText(v) ==
  CASE v = "0" -> "unplugged"
    [] v = "1" -> "plugged"
    [] v = "2" -> "charging"
    [] v = "3" -> "stopped"
    [] OTHER   -> v

\* C14: every publish on a status/state topic carries the mapped text and
\* is followed at once by a publish on the charging/state topic of the
\* same device with the same retain flag, 'ON' if and only if the raw
\* value is "2"; a live Status update with raw value v is published as
\* the text of v.
C14_StatusMapping ==
  /\ \A k \in DOMAIN pubs :
       (pubs[k].topic.ent = "status" /\ pubs[k].topic.leaf = "state") =>
          /\ pubs[k].payload \notin {"0", "1", "2", "3"}
          /\ k + 1 \in DOMAIN pubs
          /\ pubs[k + 1].topic = Topic(pubs[k].topic.dev, "charging", "state")
          /\ pubs[k + 1].retain = pubs[k].retain
          /\ pubs[k + 1].payload = IF pubs[k].payload = "charging" THEN "ON" ELSE "OFF"
  /\ \A e \in DOMAIN emits :
       (emits[e].name = "Status" /\ pubs # << >>) =>
          \E k \in DOMAIN pubs :
            /\ pubs[k].topic = Topic(emits[e].dev, "status", "state")
            /\ pubs[k].payload = StatusText(emits[e].val)

\* a live Status update "2" has been published as 'charging' and 'ON'
C14_Witness ==
  /\ ev.kind = "WsMessage" /\ ev.widget.val = "2"
  /\ \E k \in DOMAIN pubs :
       /\ pubs[k].topic = Topic("1", "status", "state") /\ pubs[k].payload = "charging"
       /\ pubs[k + 1].topic = Topic("1", "charging", "state") /\ pubs[k + 1].payload = "ON"


\* C15: discovery documents, availability and connectivity publishes and the
\* initial snapshots published while connectEviqo runs are retained; the
\* publishes of a live widget update and of a command echo are not retained
LiveValue(p) == p.topic.leaf = "state" /\ p.topic.ent # "connectivity"
C15_RetainPolicy ==
  \A k \in DOMAIN pubs :
    /\ pubs[k].topic.leaf = "config" => pubs[k].retain
    /\ (pubs[k].topic.leaf = "status" \/ pubs[k].topic.ent = "connectivity") => pubs[k].retain
    /\ ev.kind = "DiscoveryDone" => pubs[k].retain
    /\ (ev.kind # "DiscoveryDone" /\ LiveValue(pubs[k])) => ~pubs[k].retain
C15_Witness ==
  /\ ev.kind = "WsMessage" /\ ev.frame = "widget" /\ emits # << >>
  /\ \E k \in DOMAIN pubs : LiveValue(pubs[k]) /\ ~pubs[k].retain
C15_WitnessSnapshot ==
  /\ ev.kind = "DiscoveryDone"
  /\ \E k \in DOMAIN pubs : pubs[k].topic.leaf = "config"
  /\ \E k \in DOMAIN pubs : LiveValue(pubs[k]) /\ pubs[k].retain
C15_WitnessEcho ==
  /\ ev.kind = "MqttMessage" /\ calls # << >>
  /\ \E k \in DOMAIN pubs : LiveValue(pubs[k]) /\ ~pubs[k].retain

\* C16: every commandSent(deviceId, pin, value) whose (deviceId, pin) is in
\* the reverse map is answered, within the step that ran sendCommand, by
\* exactly one publish of value on the mapped state topic; a commandSent
\* without an entry publishes nothing
Mapped(c) == <<c.dev, c.pin>> \in DOMAIN pinToStateTopicMap
Echoes(c) ==
  {k \in DOMAIN pubs : /\ pubs[k].topic = pinToStateTopicMap[<<c.dev, c.pin>>]
                       /\ pubs[k].payload = c.val}
SameCommand(c) ==
  {j \in DOMAIN calls : calls[j].dev = c.dev /\ calls[j].pin = c.pin /\ calls[j].val = c.val}
C16_OptimisticEcho ==
  calls # << >> =>
    /\ \A j \in DOMAIN calls :
         Mapped(calls[j]) => Cardinality(Echoes(calls[j])) = Cardinality(SameCommand(calls[j]))
    /\ Len(pubs) = Cardinality({j \in DOMAIN calls : Mapped(calls[j])})
C16_Witness ==
  /\ \E j \in DOMAIN calls : Mapped(calls[j]) /\ Cardinality(Echoes(calls[j])) = 1
C16_WitnessUnmapped ==
  /\ calls # << >> /\ pinToStateTopicMap # << >> /\ pubs = << >>
  /\ \A j \in DOMAIN calls : ~Mapped(calls[j])

\* C17: a message on the set topic of a controllable widget yields
\* exactly one sendCommand(deviceId, pin, trimmed payload) with the pair
\* stored for the topic; a message on a topic of neither command map yields
\* no sendCommand
DirectTopic ==
  ev.topic \in DOMAIN commandTopicMap /\ ev.topic \notin DOMAIN chargingCommandTopicMap
UnknownTopic ==
  ev.topic \notin DOMAIN commandTopicMap /\ ev.topic \notin DOMAIN chargingCommandTopicMap
OneDirectCall ==
  /\ Len(calls) = 1
  /\ calls[1].dev = commandTopicMap[ev.topic].deviceId
  /\ calls[1].pin = commandTopicMap[ev.topic].pin
  /\ calls[1].val = Trim(ev.message)
C17_DirectRouting ==
  ev.kind = "MqttMessage" =>
    /\ DirectTopic => OneDirectCall
    /\ UnknownTopic => calls = << >>

C17_Witness ==
  /\ ev.kind = "MqttMessage" /\ DirectTopic /\ eviqoClient # NoSession
  /\ ev.message = " ON" /\ OneDirectCall
C17_WitnessUnknown ==
  /\ ev.kind = "MqttMessage" /\ UnknownTopic /\ eviqoClient # NoSession
  /\ commandTopicMap # EmptyMap /\ calls = << >>

\* C18: after removeDiscovery every discovery topic publishDeviceDiscovery
\* publishes for a stored page (sensor configs, number configs, the
\* connectivity sensor, the charging switch) and the old charging
\* binary-sensor topic have been overwritten with an empty retained payload
Cleared(tp) == PublishedRetained(pubs, tp, "")
C18_RemovalCoversDiscovery ==
  ev.kind = "RemoveDiscovery" =>
    \A d \in DOMAIN devicePages :
      /\ \A k \in DOMAIN DiscoveryTopics(devicePages[d]) :
           Cleared(DiscoveryTopics(devicePages[d])[k])
      /\ Cleared(ConfigTopic("binary_sensor", String(d), "charging"))

\* C18, the part that holds: everything but the number configs is cleared
C18_RemovalCoversAllButNumbers ==
  ev.kind = "RemoveDiscovery" =>
    \A d \in DOMAIN devicePages :
      /\ \A k \in DOMAIN DiscoveryTopics(devicePages[d]) :
           DiscoveryTopics(devicePages[d])[k].comp # "number" =>
             Cleared(DiscoveryTopics(devicePages[d])[k])
      /\ Cleared(ConfigTopic("binary_sensor", String(d), "charging"))

\* C20: extractWidgetMappings on a fresh client with a page of N streams
\* leaves, for the device index, a pin map with one entry per distinct pin
\* and an id map with one entry per distinct id; of the streams that share a
\* pin (a name, an id) the map holds the one that comes last in the page
Extracted == 1 \in DOMAIN sess[1].widgetPinMap
LastWith(keys, i) == \A j \in DOMAIN keys : keys[j] = keys[i] => j <= i
C20_WidgetMaps ==
  Extracted =>
    LET streams == devicePages[1].streams
        byId == sess[1].widgetIdMap[1]
        byName == sess[1].widgetNameMap[1]
        byPin == sess[1].widgetPinMap[1]
    IN /\ DOMAIN byPin = {streams[i].pin : i \in DOMAIN streams}
       /\ DOMAIN byId = {String(streams[i].id) : i \in DOMAIN streams}
       /\ DOMAIN byName = {streams[i].name : i \in DOMAIN streams}
       /\ \A i \in DOMAIN streams :
            /\ LastWith(StreamPins(streams), i) => byPin[streams[i].pin] = streams[i]
            /\ LastWith(StreamNames(streams), i) => byName[streams[i].name] = streams[i]
            /\ LastWith(StreamIds(streams), i) => byId[String(streams[i].id)] = streams[i]
C20_Witness ==
  /\ Extracted /\ ev.kind = "Extract"
  /\ LET streams == devicePages[1].streams
     IN /\ Len(streams) = MaxStreams
        /\ streams[1].pin = streams[3].pin /\ streams[1] # streams[3]
        /\ streams[2].pin # streams[1].pin
        /\ streams[2].name = streams[3].name /\ streams[2] # streams[3]
        /\ Cardinality(DOMAIN sess[1].widgetPinMap[1]) = 2
        /\ sess[1].widgetPinMap[1][streams[1].pin] = streams[3]
        /\ sess[1].widgetNameMap[1][streams[2].name] = streams[3]

\* C19 as stated: every outbound frame of a client under the monitor loop
\* restarts its keepalive timer, so right after a frame went out the 15 s
\* have not passed
Supervised(t) ==
  /\ t # NoSession /\ eviqoClient = t /\ state = "connected"
  /\ \E m \in Sessions : mon[m].pc \in {"listen", "kaListen"}
KeepaliveSent(fs, t) ==
  \E k \in DOMAIN fs : fs[k].s = t /\ fs[k].op = KEEPALIVE /\ fs[k].payload = NoPayload
OtherSent(fs, t) == \E k \in DOMAIN fs : fs[k].s = t /\ fs[k].op # KEEPALIVE
C19_WitnessKeepalive ==
  \E k \in DOMAIN frames :
    /\ frames[k].op = KEEPALIVE /\ Supervised(frames[k].s) /\ ~sess[frames[k].s].kaDue

\* C21: decoding the bytes createBinaryMessage produced gives a header with
\* the same message type and message id and an equivalent payload (the
\* header read either way: type and 16-bit id in the first three bytes, or
\* type in byte2 and id in byte4)
SameHeader ==
  /\ ~io.parsed.header.null
  /\ \/ /\ io.parsed.header.byte1 = io.type
        /\ io.parsed.header.byte2 * 256 + io.parsed.header.byte3 = io.id
     \/ /\ io.parsed.header.byte2 = io.type
        /\ io.parsed.header.byte4 = io.id
SamePayload ==
  \/ io.parsed.payload = io.payload
  \/ /\ io.parsed.payload.t = "widget" /\ io.parsed.payload.text = io.payload.text
C21_RoundTrip ==
  (io.kind = "frame" /\ io.stage = "decoded") => (SameHeader /\ SamePayload)

C22_WitnessWrap ==
  /\ io.kind = "command" /\ io.stage = "encoded" /\ io.id = 65535
  /\ io.bytes[2] = 255 /\ io.bytes[3] = 255

\* C24: parseWidgetUpdate of deviceId NUL "vw" NUL pin NUL value returns the
\* device id, the pin as widgetId and the value; a frame whose byte2 is 0x14
\* or 0x19 is classified widget_update and its payload parsed this way; a
\* record of another shape (the empty one too) gives a result with an error
\* and the hex text of the record
C24_WidgetParse ==
  /\ (io.kind = "record" /\ io.stage = "parsed") =>
       /\ ~io.update.error
       /\ io.update.deviceId = io.dev
       /\ io.update.widgetId = io.pin
       /\ io.update.widgetValue = io.value
  /\ (io.kind = "badrecord" /\ io.stage = "parsed") =>
       (io.update.error /\ io.update.rawHex = Hex(io.bytes))
  /\ (/\ io.kind = "raw" /\ io.stage = "decoded" /\ Len(io.bytes) > 4
      /\ io.bytes[2] \in {20, 25}) =>
       /\ io.parsed.header.payloadType = "widget_update"
       /\ io.parsed.payload.t = "widget"
       /\ io.bytes = <<0, io.bytes[2], 0, 0>> \o Record(T51627, <<51>>, <<51, 50>>)
            => /\ ~io.parsed.payload.update.error
               /\ io.parsed.payload.update.deviceId = T51627
               /\ io.parsed.payload.update.widgetId = <<51>>
               /\ io.parsed.payload.update.widgetValue = <<51, 50>>
       /\ io.bytes = <<0, io.bytes[2], 0, 0>> \o <<105, 110>>
            => io.parsed.payload.update.error
C24_Witness ==
  /\ io.kind = "record" /\ io.stage = "parsed"
  /\ io.dev = T51627 /\ io.pin = <<49, 53>> /\ io.value = << >>
  /\ io.update = WidgetUpdate(T51627, <<49, 53>>, << >>)
C24_WitnessFrame ==
  /\ io.kind = "raw" /\ io.stage = "decoded" /\ Len(io.bytes) > 4 /\ io.bytes[2] = 25
  /\ io.parsed.header.payloadType = "widget_update"
  /\ io.parsed.payload.update.widgetId = <<51>>
C24_WitnessMalformed ==
  /\ io.kind = "badrecord" /\ io.stage = "parsed" /\ io.bytes = <<105, 110>>
  /\ io.update.error /\ io.update.rawHex = "696e"

\* C23: parseBinaryMessage of a frame shorter than the header returns the
\* failure value (header null, payload null), for every such frame
C23_ShortFrameFails ==
  (io.kind = "raw" /\ io.stage = "decoded" /\ Len(io.bytes) < 4) =>
    (io.parsed.header.null /\ io.parsed.payload = NullValue)
C23_WitnessDecode ==
  /\ io.kind = "raw" /\ io.stage = "decoded" /\ io.bytes = <<1, 2, 3>>
  /\ io.parsed.header.null

\* C23: a listen() that receives a frame shorter than the header resolves
\* with header null and payload null: every listen() pending on the socket
\* returns (a login in wait fails for want of a payload, a monitor loop goes
\* on), and nothing is dispatched as a widget update
HasListener(t, task, id) ==
  \E i \in DOMAIN sess[t].listeners : sess[t].listeners[i] = [task |-> task, id |-> id]
C23_ShortFrameResolves ==
  [][(ev'.kind = "WsMessage" /\ ev'.raw # << >> /\ Len(ev'.raw) < 4) =>
       /\ ev'.header = "null" /\ ev'.frame = "null"
       /\ emits' = << >>
       /\ \A s \in Sessions :
            HasListener(ev'.id, "conn", s) =>
              /\ conn[s].pc \in {"init", "login"} =>
                   (conn'[s].pc = "failed" /\ sess'[ev'.id].user = sess[ev'.id].user)
              /\ conn'[s].pc # conn[s].pc
       /\ \A m \in Sessions :
            (HasListener(ev'.id, "mon", m) /\ mon[m].pc = "kaListen" /\ eviqoClient = ev'.id)
              => mon'[m].pc = "listen"]_vars
C23_Witness ==
  /\ ev.kind = "WsMessage" /\ ev.raw = <<1, 2>> /\ ev.header = "null"
  /\ \E s \in Sessions : conn[s].pc = "failed" /\ state = "error"
C23_WitnessMonitor ==
  /\ ev.kind = "WsMessage" /\ ev.raw = <<1, 2>> /\ ev.header = "null"
  /\ state = "connected" /\ \E m \in Sessions : mon[m].pc = "listen"

\* C25: once the gateway has handled an inbound Status update with raw
\* value v for a known device d, deviceStatus[d] = v, whatever the state of
\* the MQTT connection
C25_StatusTracked ==
  \A k \in DOMAIN emits :
    emits[k].name = "Status" =>
      /\ emits[k].dev \in DOMAIN deviceStatus
      /\ deviceStatus[emits[k].dev] = emits[k].val

\* C25, with the MQTT client connected when the update is handled
C25_StatusTrackedWhileMqttUp ==
  \A k \in DOMAIN emits :
    (emits[k].name = "Status" /\ mqttClient # "null" /\ mqtt \in {"connected", "ending"}) =>
      /\ emits[k].dev \in DOMAIN deviceStatus
      /\ deviceStatus[emits[k].dev] = emits[k].val

\* C26: every value stored in deviceStatus is one of "0", "1", "2", "3",
\* whatever the initial page values and the inbound Status updates were
C26_StatusInRange ==
  \A d \in DOMAIN deviceStatus : deviceStatus[d] \in {"0", "1", "2", "3"}

\* ---------------------------------------------------------------------
\* C27: every command topic the gateway has subscribed to, the set topics of
\* the controllable widgets and the charging/set topic alike, has an entry
\* in commandTopicMap and an entry in pinToStateTopicMap for its
\* (deviceId, pin)
ChargingSetTopic(tp) == tp.ent = "charging" /\ tp.leaf = "set"
InBothMaps(tp) ==
  /\ tp \in DOMAIN commandTopicMap
  /\ commandTopicMap[tp].deviceId = tp.dev
  /\ <<tp.dev, commandTopicMap[tp].pin>> \in DOMAIN pinToStateTopicMap
  /\ pinToStateTopicMap[<<tp.dev, commandTopicMap[tp].pin>>] = Topic(tp.dev, tp.ent, "state")
C27_SubscribedInBothMaps == \A tp \in subs : InBothMaps(tp)

\* C27 as the code has it: a controllable widget's set topic is in both
\* maps; the charging/set topic is in chargingCommandTopicMap alone, with
\* no entry in commandTopicMap and no reverse entry for the charging pin
C27_SubscribedMapped ==
  \A tp \in subs :
    IF ChargingSetTopic(tp)
      THEN /\ tp \in DOMAIN chargingCommandTopicMap
           /\ chargingCommandTopicMap[tp] = tp.dev
           /\ tp \notin DOMAIN commandTopicMap
           /\ <<tp.dev, chargingPin>> \notin DOMAIN pinToStateTopicMap
      ELSE InBothMaps(tp)

C27_Witness ==
  /\ \E tp \in subs : ChargingSetTopic(tp)
  /\ \E tp \in subs : ~ChargingSetTopic(tp)

\* ---------------------------------------------------------------------
\* the steps of one device in a step's outputs
OnlinePublish(p) == p.topic.leaf = "status" /\ p.payload = "online"
ConfigPublish(p) == p.topic.leaf = "config"
InitialValue(p) == LiveValue(p) /\ p.retain
\* the registry of the device connectEviqo() works on is built: its page is
\* stored and the client has extracted the widget maps of a device
RegistryBuilt(s) ==
  /\ \E d \in DOMAIN devicePages : devicePages[d] = conn[s].page
  /\ conn[s].cur # NoSession => sess[conn[s].cur].widgetPinMap # EmptyMap

\* C28: a device is marked online only after its discovery, its initial
\* retained values and the subscription to its command topics
C28_OnlineLast ==
  \A k \in DOMAIN pubs :
    OnlinePublish(pubs[k]) =>
      /\ \A j \in DOMAIN pubs : (ConfigPublish(pubs[j]) \/ InitialValue(pubs[j])) => j < k
      /\ \A j \in DOMAIN subscribes : subscribes[j].after < k

\* C28 with the order of the code: page and registry first; then, in one
\* step, discovery, online, the initial retained values and the
\* subscription, in this order; the next device is asked for only after that
C28_DeviceOrder ==
  /\ \A s \in Sessions : conn[s].pc = "disc" => RegistryBuilt(s)
  /\ \A k \in DOMAIN pubs :
       OnlinePublish(pubs[k]) =>
         /\ \A j \in DOMAIN pubs :
              /\ ConfigPublish(pubs[j]) => j < k
              /\ InitialValue(pubs[j]) => j > k
              /\ pubs[j].topic.dev = pubs[k].topic.dev
         /\ Len(subscribes) = 1
         /\ subscribes[1].after = Len(pubs)
         /\ \A tp \in subscribes[1].topics : tp.dev = pubs[k].topic.dev
         /\ \A j \in DOMAIN frames : frames[j].op \in {DEVICE_NUMBER, KEEPALIVE}

\* a device with initial values is set up and the next device is asked for
C28_Witness ==
  /\ \E k \in DOMAIN pubs : OnlinePublish(pubs[k])
  /\ \E k \in DOMAIN pubs : ConfigPublish(pubs[k])
  /\ \E k \in DOMAIN pubs : InitialValue(pubs[k])
  /\ subscribes # << >>
  /\ frames # << >>

\* ---------------------------------------------------------------------
\* a connectEviqo() activation moves from waiting at one request to waiting
\* at another in the step
Advances(s, from, to) == conn[s].pc \in from /\ conn'[s].pc = to
\* the step continues activations whose listen() returned: on an inbound
\* frame or on a timeout (or, for the next device, on the discovery of the
\* one before)
ListenReturned == ev'.kind \in {"WsMessage", "ListenTimeout"}
HandshakeOps == {LOGIN, DEVICE_QUERY, DEVICE_NUMBER, DEVICE_PAGE}

\* C29: the handshake sends LOGIN, DEVICE_QUERY, then for each device
\* DEVICE_NUMBER followed by DEVICE_PAGE; each of these frames is sent only
\* after the listen() for the frame before it has returned, and the
\* DEVICE_PAGE of a device only after one inbound frame or a timeout was
\* consumed after its DEVICE_NUMBER
C29_HandshakeOrder ==
  [][\A k \in DOMAIN frames' :
       LET fr == frames'[k]
       IN /\ fr.op = LOGIN =>
               /\ \E s \in Sessions : Advances(s, {"init"}, "login")
               /\ ListenReturned
          /\ fr.op = DEVICE_QUERY =>
               /\ \E s \in Sessions : Advances(s, {"login"}, "query")
               /\ ListenReturned
          /\ fr.op = DEVICE_NUMBER =>
               /\ \E s \in Sessions : Advances(s, {"query", "page", "disc"}, "devnum")
               /\ ListenReturned \/ ev'.kind = "DiscoveryDone"
          /\ fr.op = DEVICE_PAGE =>
               /\ \E s \in Sessions :
                    /\ Advances(s, {"devnum"}, "page")
                    /\ fr.payload.dev = String(sess[conn[s].devs].devices[conn[s].idx])
                    /\ fr.s = conn[s].cur
               /\ ListenReturned]_vars

\* the page of the second device is asked for
C29_Witness ==
  \E k \in DOMAIN frames : frames[k].op = DEVICE_PAGE /\ frames[k].payload.dev = "2"

\* the page of a device is asked for after the listen() following its
\* DEVICE_NUMBER has timed out
C29_WitnessTimeout ==
  /\ ev.kind = "ListenTimeout"
  /\ \E k \in DOMAIN frames : frames[k].op = DEVICE_PAGE

\* ---------------------------------------------------------------------
\* the listen() of login() returns without a payload in the step: it timed
\* out, or the frame it got was too short to parse
LoginUnanswered(s) ==
  /\ conn[s].pc = "login" /\ conn'[s].pc = "failed"
  /\ ev'.kind = "ListenTimeout" \/ ev'.frame = "null"
\* the part of the step that is the same wherever connectEviqo() was called
LoginFails(s) ==
  /\ sess'[conn[s].cur].user = "null"
  /\ \A k \in DOMAIN frames' : frames'[k].op # DEVICE_QUERY
  /\ conn[s].origin = "start" =>
       /\ state' = "error"
       /\ reconnectTimer' = reconnectTimer /\ orphanTimers' = orphanTimers
NoReconnectScheduled ==
  /\ reconnectTimer' = reconnectTimer /\ orphanTimers' = orphanTimers
  /\ state' = state

\* C30: when login() gets no response payload it fails, the user record
\* stays null, no DEVICE_QUERY is sent, start() ends in state 'error', and
\* no reconnect is scheduled, at start or during a reconnect attempt
C30_LoginFailureFatal ==
  [][\A s \in Sessions :
       LoginUnanswered(s) =>
         /\ LoginFails(s)
         /\ reconnectTimer' = reconnectTimer /\ orphanTimers' = orphanTimers]_vars

\* C30 as the code has it: at start the failure is final; in a reconnect
\* attempt the timer callback catches it and schedules the next attempt
\* (state 'connecting'), unless a shutdown was requested
C30_LoginFailure ==
  [][\A s \in Sessions :
       LoginUnanswered(s) =>
         /\ LoginFails(s)
         /\ conn[s].origin = "reconnect" =>
              IF shutdownRequested THEN NoReconnectScheduled
              ELSE reconnectTimer' = "pending" /\ state' = "connecting"]_vars

\* the handshake of a connectEviqo() has just failed after its LOGIN frame
LoginJustFailed(s, origin) ==
  /\ conn[s].pc = "failed" /\ conn[s].origin = origin /\ conn[s].cur # NoSession
  /\ sess[conn[s].cur].lastId = LoginByte4 /\ sess[conn[s].cur].messageCounter = 0
  /\ sess[conn[s].cur].user = "null"
  /\ ev.kind = "ListenTimeout" \/ ev.frame = "null"

\* login fails during start(): state 'error', nothing scheduled
C30_Witness ==
  \E s \in Sessions :
    LoginJustFailed(s, "start") /\ state = "error" /\ reconnectTimer = "null"

\* login fails during a reconnect attempt: the next attempt is scheduled
C30_WitnessReconnect ==
  \E s \in Sessions :
    LoginJustFailed(s, "reconnect") /\ state = "connecting" /\ reconnectTimer = "pending"

C31_WitnessOneByte ==
  \E k \in DOMAIN frames : frames[k].id = OneByteIds

\* ---------------------------------------------------------------------
\* C32: when two keepalive windows in a row have passed without an inbound
\* frame, monitorLoop has caught an error and scheduled a reconnect
C32_TwoMissedWindowsFail ==
  (io.kind = "ka" /\ io.missed >= 2) =>
    /\ mon[1].pc = "done"
    /\ reconnectTimer = "pending"

\* C32 as the code has it: the loop keeps waiting in a listen(), in state
\* 'connected' and with no reconnect scheduled, however many windows passed
C32_LoopContinues ==
  io.kind = "ka" =>
    /\ mon[1].pc \in {"listen", "kaListen"}
    /\ state = "connected" /\ reconnectTimer = "null"

\* two windows in a row have passed without a frame on an open socket
C32_Witness ==
  /\ io.kind = "ka" /\ io.missed = 2
  /\ sess[1].ws = "open" /\ ev.kind = "ListenTimeout"

\* ---------------------------------------------------------------------
\* the stored page of device dev has a stream on that pin
ReportsPin(dev, pin) ==
  \E d \in DOMAIN devicePages :
    /\ String(d) = dev
    /\ \E i \in DOMAIN devicePages[d].streams : devicePages[d].streams[i].pin = pin

\* C33: the charging/set topic of a device is subscribed, and a write to
\* pin "15" of a device is sent, only if the page of that device reports
\* pin "15"
C33_ChargingOnlyOnReportedPin ==
  /\ \A tp \in subs : ChargingSetTopic(tp) => ReportsPin(tp.dev, chargingPin)
  /\ \A k \in DOMAIN calls : calls[k].pin = chargingPin => ReportsPin(calls[k].dev, chargingPin)

\* ---------------------------------------------------------------------
\* the frame of the step is a widget update the client has no use for: a
\* record without fields, an unknown device, or a pin not in the pin map
DroppedUpdate ==
  /\ ev'.kind = "WsMessage" /\ ev'.frame = "widget"
  /\ ~(ev'.widget.pin # "" /\ ev'.widget.dev # "" /\ KnownWidget(ev'.id, ev'.widget))
\* nothing of the gateway and of the sessions is changed and nothing is
\* published or emitted
NothingStored ==
  /\ emits' = << >> /\ pubs' = << >> /\ calls' = << >>
  /\ UNCHANGED << state, reconnectTimer, orphanTimers, eviqoClient, devices, devicePages,
                  deviceStatus, commandTopicMap, pinToStateTopicMap,
                  chargingCommandTopicMap >>
  /\ \A t \in Sessions :
       \/ /\ sess'[t].user = sess[t].user
          /\ sess'[t].devices = sess[t].devices
          /\ sess'[t].widgetPinMap = sess[t].widgetPinMap
       \* (or nothing refers to the client any more)
       \/ ~Referenced(Cur, t)'
\* no connectEviqo() is made to throw
NothingRaised == \A s \in Sessions : conn'[s].pc = "failed" => conn[s].pc = "failed"
\* the gateway holds a client and only monitorLoop is listening on the
\* socket of the frame
OnlyLoopListens ==
  /\ eviqoClient # NoSession
  /\ \A i \in DOMAIN sess[ev'.id].listeners : sess[ev'.id].listeners[i].task = "mon"

\* C34: a widget update that is malformed or names an unknown device or
\* pin emits no 'widgetUpdate', changes no session or gateway state and
\* raises no error into the caller of listen()
C34_BadUpdateDropped ==
  [][DroppedUpdate => (NothingStored /\ NothingRaised)]_vars

\* C34 for the frames that reach the listen() of monitorLoop alone while
\* the gateway holds a client
C34_BadUpdateDroppedInLoop ==
  [][(DroppedUpdate /\ OnlyLoopListens) => (NothingStored /\ NothingRaised)]_vars

\* ---------------------------------------------------------------------
\* reconnect timers that will still fire
PendingTimers == orphanTimers + (IF reconnectTimer = "pending" THEN 1 ELSE 0)
\* the step schedules a reconnect, or performs one
ReconnectStep ==
  \/ PendingTimers' > PendingTimers
  \/ ev'.kind = "ReconnectFire"
  \/ \E s \in Sessions : /\ conn[s].origin = "reconnect" /\ conn'[s].pc # conn[s].pc
                          /\ ev'.id = s /\ ev'.kind \notin {"Stop", "MqttEnded"}
MqttUntouched == mqttClient' = mqttClient /\ mqtt' = mqtt

\* C35: never more than one reconnect timer is pending, an attempt starts
\* only when a timer fires, a failed attempt schedules exactly one further
\* attempt, and no step that schedules or performs a reconnect closes,
\* replaces or reconnects the MQTT client
C35_OneTimerMqttUntouched ==
  [][/\ PendingTimers' <= 1
     /\ ReconnectStep => MqttUntouched
     /\ \A s \in Sessions :
          (conn[s].origin = "reconnect" /\ conn[s].pc # "failed" /\ conn'[s].pc = "failed"
             /\ ~shutdownRequested)
            => PendingTimers' = PendingTimers + 1
     /\ \A s \in Sessions :
          (conn[s].pc = "none" /\ conn'[s].origin = "reconnect")
            => (ev'.kind = "ReconnectFire" /\ PendingTimers' = PendingTimers - 1)]_vars
\* the sessions whose WebSocket is open
OpenSockets == {t \in Sessions : sess[t].ws = "open"}

\* C36: the socket of a session is closed when connectEviqo() fails on it,
\* when another session takes its place in eviqoClient and when stop()
\* drops it, so that at most one session socket is open at any time
C36_SocketReleased ==
  [][/\ Cardinality(OpenSockets') <= 1
     /\ \A s \in Sessions :
          (conn[s].pc # "failed" /\ conn'[s].pc = "failed" /\ conn[s].cur \in Sessions)
            => sess'[conn[s].cur].ws # "open"
     /\ \A t \in Sessions :
          (eviqoClient = t /\ eviqoClient' # t) => sess'[t].ws # "open"]_vars
\* C37: every widget update for a known device and pin that arrives on an
\* open socket produces exactly one 'widgetUpdate' event, whether or not a
\* listen() is waiting on the socket
C37_NoTelemetryLost ==
  [][(/\ ev'.kind = "WsMessage" /\ ev'.frame = "widget"
      /\ ev'.widget.pin # "" /\ ev'.widget.dev # ""
      /\ KnownWidget(ev'.id, ev'.widget))
       => /\ Len(emits') = 1
          /\ emits'[1].s = ev'.id /\ emits'[1].dev = ev'.widget.dev
          /\ emits'[1].pin = ev'.widget.pin]_vars
\* publish p is the echo the 'commandSent' listener makes for call c
EchoOf(p, c) ==
  /\ <<c.dev, c.pin>> \in DOMAIN pinToStateTopicMap
  /\ p.topic = pinToStateTopicMap[<<c.dev, c.pin>>]
  /\ p.payload = c.val /\ ~p.retain

\* C38: a sendCommand whose frame was not handed to the socket emits no
\* 'commandSent' (no echo of it is published) and leaves the message
\* counter of its session as it was
C38_EchoOnlyIfSent ==
  [][\A k \in DOMAIN calls' :
       (~calls'[k].sent /\ calls'[k].s \in Sessions)
         => /\ \A j \in DOMAIN pubs' : ~EchoOf(pubs'[j], calls'[k])
            /\ sess'[calls'[k].s].messageCounter = sess[calls'[k].s].messageCounter]_vars
\* stop() has run to its end and start() has not been called since
StopCompleted == shutdownRequested /\ stopPc = "idle"

\* C39: from the end of stop() until the next start() the gateway state
\* stays 'disconnected' and eviqoClient stays null through every step of a
\* connectEviqo() that a reconnect timer had started before stop() ended
C39_StoppedStaysStopped ==
  [][(/\ StopCompleted /\ StopCompleted'
      /\ state = "disconnected" /\ eviqoClient = NoSession
      /\ \E s \in Sessions : /\ conn[s].origin = "reconnect" /\ ev'.id = s
                              /\ conn'[s].pc # conn[s].pc)
       => (state' = "disconnected" /\ eviqoClient' = NoSession)]_vars
\* stop() has ended, and a connectEviqo() started by a reconnect timer has
\* failed after it: the gateway is still stopped
C39_Witness ==
  /\ StopCompleted /\ state = "disconnected" /\ eviqoClient = NoSession
  /\ ev.kind \in {"FetchDone", "WsOpened", "WsOpenFailed", "WsMessage", "ListenTimeout",
                   "DiscoveryFailed"}
  /\ ev.id \in Sessions
  /\ conn[ev.id].origin = "reconnect" /\ conn[ev.id].pc = "failed"
\* C40: a command frame is emitted only while the gateway is 'connected'
\* and only on a session whose handshake has completed, and a sendCommand
\* in any other state consumes no message id
C40_CommandOnlyWhenConnected ==
  [][/\ \A k \in DOMAIN frames' :
          frames'[k].op = COMMAND
            => (state = "connected" /\ conn[frames'[k].s].pc = "done")
     /\ \A k \in DOMAIN calls' :
          (calls'[k].s \in Sessions
             /\ (state # "connected" \/ conn[calls'[k].s].pc # "done"))
            => sess'[calls'[k].s].messageCounter = sess[calls'[k].s].messageCounter]_vars
====
